---- MODULE Spec2Model ----
(***************************************************************************)
(* dbcor: the nested transactional session model (Database scopes and the  *)
(* System scopes that wrap them), the lazy binding of named tables and     *)
(* services to a scope, and Table/Service connect.                         *)
(*                                                                         *)
(* A scope is one proxy built by createDatabaseProxy.  Scopes, connection  *)
(* handles, System proxies and table/service objects are numbered in the   *)
(* order they are created, which stands for JavaScript object identity.    *)
(* An asynchronous method is two steps: the part that runs up to its await *)
(* (…Call) and the part that runs when the awaited promise settles         *)
(* (…Return); other calls may run in between.                              *)
(***************************************************************************)
EXTENDS Integers, FiniteSets, Sequences, TLC

\* ---------------------------------------------------------------- bounds
MaxScopes == 3      \* Database scopes, the base scope included
MaxPending == 2     \* calls suspended at their await at one time
MaxObjs == 4        \* table / service objects, the two blueprints included
MaxBound == 3       \* members bound by reads in one run
MaxRows == 2        \* rows inserted in one run
MaxCols == 2         \* columns of a row definition given to a converter
MaxLen == 2          \* records of an array given to a converter
MaxMany == 3        \* rows given to one insertMany
MaxData == 2        \* rows of the dataset given to a static table

\* ------------------------------------------------------------- constants
NoParent == -1      \* createDatabaseProxy called without `parent`
NoSys == -1         \* a call made on a Database scope directly
NoConn == -1        \* #knex / #db undefined
NoObj == -1         \* connected[key] undefined
Root == 0           \* the root Knex instance handed to the connector
Base == 0           \* the scope createDatabaseProxy({isBase: true, knex})
BaseSys == 0        \* the System proxy createSystemProxy(database)

Tables == {"Dynamic"}               \* keys of the database object
Services == {"A"}                   \* keys of the system object
AdminKeys == {"knex", "transaction", "commit", "rollback", "level", "closed"}
SysAdminKeys == {"db", "level", "closed", "transaction", "commit", "rollback"}
OtherKeys == {"missing"}            \* a key of neither

VARIABLES
    nScopes,      \* number of Database scopes created; scopes are 0..nScopes-1
    parent,       \* scope -> the scope whose status it was given, or NoParent
    isBase,       \* scope -> from.isBase
    closed,       \* scope -> the `closed` local of createDatabaseProxy
    knex,         \* scope -> from.knex, a connection handle
    connected,    \* scope -> (table key -> bound object or NoObj)
    nKnex,        \* number of connection handles; handles are 0..nKnex-1
    outer,        \* handle -> the handle whose transaction() made it
    completed,    \* handle -> "open" | "committed" | "rolledback" | "failed"
    rows,         \* handle -> rows written through it and not yet released
    nSys,         \* number of System proxies; proxies are 0..nSys-1
    sysDb,        \* System proxy -> the Database scope it wraps (db)
    sysConnected, \* System proxy -> (service key -> bound object or NoObj)
    objs,         \* sequence of table/service objects: [kind, name, conn]
    pending,      \* calls suspended at their await
    nRows,        \* insert calls issued so far
    inserted,     \* the rows insert calls returned to the caller
    last,         \* the outcome of the most recent call
    input,        \* the arguments of the converter or table call under study
    output        \* what that call returned or threw, once it has run

vars == <<nScopes, parent, isBase, closed, knex, connected, nKnex, outer,
          completed, rows, nSys, sysDb, sysConnected, objs, pending, nRows,
          inserted, last, input, output>>

sessionVars == <<nScopes, parent, isBase, closed, knex, connected>>
knexVars == <<nKnex, outer, completed, rows, nRows, inserted>>
sysVars == <<nSys, sysDb, sysConnected>>
callVars == <<input, output>>

Scopes == 0 .. nScopes - 1
Handles == 0 .. nKnex - 1
Systems == 0 .. nSys - 1
ObjIds == 1 .. Len(objs)

\* ------------------------------------------------------- scope status
\* The scope's own flag alone, as a cached or denormalized `closed` would be.
ClosedOwnFlagOnly(s) == closed[s]

\* status.closed: parent?.closed || closed
RECURSIVE Closed(_)
Closed(s) ==
    (parent[s] # NoParent /\ Closed(parent[s])) \/ closed[s]

\* A level that only tells base from transaction.
LevelFlat(s) == IF parent[s] = NoParent THEN 0 ELSE 1

\* status.level: (parent?.level ?? -1) + 1
RECURSIVE Level(_)
Level(s) ==
    (IF parent[s] = NoParent THEN -1 ELSE Level(parent[s])) + 1

\* System proxy getters: (db as Database).closed, (db as Database).level
SysClosed(p) == Closed(sysDb[p])

SysLevel(p) == Level(sysDb[p])

\* ------------------------------------------------ the connection (knex)
\* Transaction.isCompleted()
IsCompleted(h) == completed[h] # "open"

\* Only a handle made by transaction() has isCompleted, commit and rollback.
IsTransaction(h) == h # Root

\* h and every handle made, directly or not, by h.transaction().
RECURSIVE Within(_, _)
Within(h, g) ==
    g = h \/ (outer[g] # NoConn /\ Within(h, outer[g]))

NestedRows(h) == UNION {rows[g] : g \in {x \in Handles : Within(h, x)}}

\* The transaction begun on the root connection that h is or lies in: the
\* handles nested in it are savepoints of its one connection.
RECURSIVE Top(_)
Top(h) == IF outer[h] = Root THEN h ELSE Top(outer[h])

\* Rows a query through handle h sees: what is committed and, inside a
\* transaction, all that was written on its connection and not rolled back,
\* the rows of savepoints still open included.
Visible(h) ==
    rows[Root] \cup (IF h = Root THEN {} ELSE NestedRows(Top(h)))

\* A handle accepts queries while it and the handles around it are open.
RECURSIVE Live(_)
Live(h) ==
    h = Root \/ (completed[h] = "open" /\ Live(outer[h]))

\* COMMIT / RELEASE SAVEPOINT: what was written inside h now belongs to the
\* handle around it.
StoreCommit(h) ==
    [g \in Handles |->
        IF g = outer[h] THEN rows[g] \cup NestedRows(h)
        ELSE IF Within(h, g) THEN {}
        ELSE rows[g]]

\* ROLLBACK / ROLLBACK TO SAVEPOINT: what was written inside h is gone.
StoreRollback(h) ==
    [g \in Handles |-> IF Within(h, g) THEN {} ELSE rows[g]]

\* ------------------------------------------------------------ blueprints
\* makeDatabaseConnector(database): db = {...database}; the system object.
Models == [k \in Tables |-> 1]

Sys == [k \in Services |-> 2]

Blueprints == {1, 2}

\* connect that sets the receiver's own connection and returns the receiver.
ConnectInPlace(o, c) ==
    [heap |-> [objs EXCEPT ![o].conn = c], ret |-> o]

\* Table.connect / Service.connect: clone the receiver, set the clone's
\* connection, return the clone. The result is the new heap and the clone.
Connect(o, c) ==
    [heap |-> Append(objs, [objs[o] EXCEPT !.conn = c]), ret |-> Len(objs) + 1]

\* ------------------------------------------------------------------ Init
\* No converter or table call is under study.
NoCall == [op |-> "none"]

Outcome(op, res, ret) == [op |-> op, res |-> res, ret |-> ret]

\* The connectors just applied: one base scope, one base System proxy, the
\* blueprints unconnected, nothing in the store.
InitSession ==
    /\ nScopes = 1
    /\ parent = [s \in {Base} |-> NoParent]
    /\ isBase = [s \in {Base} |-> TRUE]
    /\ closed = [s \in {Base} |-> FALSE]
    /\ knex = [s \in {Base} |-> Root]
    /\ connected = [s \in {Base} |-> [k \in Tables |-> NoObj]]
    /\ nKnex = 1
    /\ outer = [h \in {Root} |-> NoConn]
    /\ completed = [h \in {Root} |-> "open"]
    /\ rows = [h \in {Root} |-> {}]
    /\ nSys = 1
    /\ sysDb = [p \in {BaseSys} |-> Base]
    /\ sysConnected = [p \in {BaseSys} |-> [k \in Services |-> NoObj]]
    /\ objs = << [kind |-> "table", name |-> "Dynamic", conn |-> NoConn],
                 [kind |-> "service", name |-> "A", conn |-> NoConn] >>
    /\ pending = {}
    /\ nRows = 0
    /\ inserted = {}
    /\ last = Outcome("none", "none", NoObj)

Init ==
    /\ InitSession
    /\ input = NoCall
    /\ output = NoCall

\* Whether a statement issued on handle h can succeed: always on an open
\* connection, never once the handle around h is finished.
Outcomes(h) == IF Live(h) THEN {TRUE, FALSE} ELSE {FALSE}

\* ----------------------------------------------------------- transaction
\* knex.transaction(): a new handle inside h; ok tells whether it will begin.
KnexTransaction(h, ok) ==
    /\ nKnex' = nKnex + 1
    /\ outer' = [g \in 0 .. nKnex |-> IF g = nKnex THEN h ELSE outer[g]]
    /\ completed' = [g \in 0 .. nKnex |->
            IF g = nKnex THEN (IF ok THEN "open" ELSE "failed") ELSE completed[g]]
    /\ rows' = [g \in 0 .. nKnex |-> IF g = nKnex THEN {} ELSE rows[g]]

\* A call that returns ret, or throws res, and changes nothing.
Returned(op, res, ret) ==
    /\ last' = Outcome(op, res, ret)
    /\ UNCHANGED <<sessionVars, knexVars, sysVars, objs, pending>>

\* A call that throws before it reaches the connection.
Rejected(op, res) == Returned(op, res, NoObj)

\* The call of transaction() on handle h, made for scope s, and its await.
TransactionIssueOn(s, p, h) ==
    /\ nKnex < MaxScopes
    /\ Cardinality(pending) < MaxPending
    /\ \E ok \in Outcomes(h) :
          /\ KnexTransaction(h, ok)
          /\ pending' = pending \cup
                {[op |-> "transaction", scope |-> s, sys |-> p,
                  trx |-> nKnex, ok |-> ok]}
    /\ last' = Outcome("transaction", "pending", NoObj)
    /\ UNCHANGED <<sessionVars, sysVars, objs, nRows, inserted>>

\* The connector's root `knex` used where this.knex is meant.
TransactionIssueOnRoot(s, p) == TransactionIssueOn(s, p, Root)

\* const transaction = await this.knex.transaction()
TransactionIssue(s, p) == TransactionIssueOn(s, p, knex[s])

\* transaction() without its test of status.closed.
TransactionUnchecked(s, p) == TransactionIssue(s, p)

\* Database.transaction up to its await; p is the System proxy the call came
\* through, or NoSys.
Transaction(s, p) ==
    IF Closed(s)
    THEN Rejected("transaction", "AlreadyCompleted")
    ELSE TransactionIssue(s, p)

\* A `closed` local hoisted out of createDatabaseProxy: one flag for every
\* scope of the connector, reset by each new proxy.
CreateDatabaseProxySharedFlag(s, h) ==
    /\ nScopes' = nScopes + 1
    /\ parent' = [t \in 0 .. nScopes |-> IF t = nScopes THEN s ELSE parent[t]]
    /\ isBase' = [t \in 0 .. nScopes |-> IF t = nScopes THEN FALSE ELSE isBase[t]]
    /\ closed' = [t \in 0 .. nScopes |-> FALSE]
    /\ knex' = [t \in 0 .. nScopes |-> IF t = nScopes THEN h ELSE knex[t]]
    /\ connected' = [t \in 0 .. nScopes |->
            IF t = nScopes THEN [k \in Tables |-> NoObj] ELSE connected[t]]

\* createDatabaseProxy({isBase: false, knex: transaction}, status)
CreateDatabaseProxy(s, h) ==
    /\ nScopes' = nScopes + 1
    /\ parent' = [t \in 0 .. nScopes |-> IF t = nScopes THEN s ELSE parent[t]]
    /\ isBase' = [t \in 0 .. nScopes |-> IF t = nScopes THEN FALSE ELSE isBase[t]]
    /\ closed' = [t \in 0 .. nScopes |-> IF t = nScopes THEN FALSE ELSE closed[t]]
    /\ knex' = [t \in 0 .. nScopes |-> IF t = nScopes THEN h ELSE knex[t]]
    /\ connected' = [t \in 0 .. nScopes |->
            IF t = nScopes THEN [k \in Tables |-> NoObj] ELSE connected[t]]

\* createSystemProxy(db): the new proxy wraps the scope the call was made on.
CreateSystemProxyOfCaller(s) ==
    /\ nSys' = nSys + 1
    /\ sysDb' = [q \in 0 .. nSys |-> IF q = nSys THEN parent'[s] ELSE sysDb[q]]
    /\ sysConnected' = [q \in 0 .. nSys |->
            IF q = nSys THEN [k \in Services |-> NoObj] ELSE sysConnected[q]]

\* createSystemProxy(transaction)
CreateSystemProxy(s) ==
    /\ nSys' = nSys + 1
    /\ sysDb' = [q \in 0 .. nSys |-> IF q = nSys THEN s ELSE sysDb[q]]
    /\ sysConnected' = [q \in 0 .. nSys |->
            IF q = nSys THEN [k \in Services |-> NoObj] ELSE sysConnected[q]]

\* The await of knex.transaction() settles: the new scope is made, and the
\* System proxy around it when the call came through a System proxy.
TransactionReturn(c) ==
    /\ c \in pending
    /\ c.op = "transaction"
    /\ pending' = pending \ {c}
    /\ IF c.ok
       THEN /\ CreateDatabaseProxy(c.scope, c.trx)
            /\ IF c.sys = NoSys
               THEN /\ UNCHANGED sysVars
                    /\ last' = Outcome("transaction", "ok", NoObj)
               ELSE /\ CreateSystemProxy(nScopes)
                    /\ last' = Outcome("transaction", "ok", NoObj)
            /\ UNCHANGED <<knexVars, objs>>
       ELSE /\ last' = Outcome("transaction", "ConnectionError", NoObj)
            /\ UNCHANGED <<sessionVars, knexVars, sysVars, objs>>

\* ------------------------------------------------------ commit / rollback
\* knex.commit() / knex.rollback(): the handle is completed at once; the
\* statement takes effect in the order issued when it succeeds.
KnexFinish(op, h, ok) ==
    /\ completed' = [completed EXCEPT ![h] =
            IF ~ok THEN "failed"
            ELSE IF op = "commit" THEN "committed" ELSE "rolledback"]
    /\ rows' = IF ~ok THEN rows
               ELSE IF op = "commit" THEN StoreCommit(h) ELSE StoreRollback(h)

\* await this.knex.commit() / await this.knex.rollback()
FinishIssue(op, s) ==
    /\ Cardinality(pending) < MaxPending
    /\ \E ok \in Outcomes(outer[knex[s]]) :
          /\ KnexFinish(op, knex[s], ok)
          /\ pending' = pending \cup
                {[op |-> op, scope |-> s, sys |-> NoSys, trx |-> knex[s], ok |-> ok]}
    /\ last' = Outcome(op, "pending", NoObj)
    /\ UNCHANGED <<sessionVars, sysVars, objs, nKnex, outer, nRows, inserted>>

\* this.isBase inside a method called as scope.commit(): `this` is the
\* proxy, so handler.get answers the read; isBase is not one of its keys and
\* the member lookup answers it (undefined unless a table has that name).
ThisIsBase(s) ==
    IF "isBase" \in AdminKeys THEN isBase[s] ELSE "isBase" \in Tables

\* A guard that tests status.closed alone, without asking the connection
\* whether it is completed.
FinishClosedOnly(op, s, p) ==
    IF ThisIsBase(s)
    THEN Rejected(op, "NotInTransaction")
    ELSE IF Closed(s)
    THEN Rejected(op, "AlreadyCompleted")
    ELSE IF ~IsTransaction(knex[s])
    THEN Rejected(op, "TypeError")
    ELSE FinishIssue(op, s)

\* Database.commit and Database.rollback up to their await; p is the System
\* proxy the call came through, or NoSys. On the root connection, which is
\* no transaction, the call of isCompleted is a call of undefined.
Finish(op, s, p) ==
    IF ThisIsBase(s)
    THEN Rejected(op, "NotInTransaction")
    ELSE IF Closed(s)
    THEN Rejected(op, "AlreadyCompleted")
    ELSE IF ~IsTransaction(knex[s])
    THEN Rejected(op, "TypeError")
    ELSE IF IsCompleted(knex[s])
    THEN Rejected(op, "AlreadyCompleted")
    ELSE FinishIssue(op, s)

Commit(s, p) == Finish("commit", s, p)

Rollback(s, p) == Finish("rollback", s, p)

\* A `closed` local shared by every scope of the connector.
FinishReturnSharedFlag(c) ==
    /\ c \in pending
    /\ c.op \in {"commit", "rollback"}
    /\ pending' = pending \ {c}
    /\ IF c.ok
       THEN /\ closed' = [t \in Scopes |-> TRUE]
            /\ last' = Outcome(c.op, "ok", NoObj)
            /\ UNCHANGED <<nScopes, parent, isBase, knex, connected>>
       ELSE /\ last' = Outcome(c.op, "ConnectionError", NoObj)
            /\ UNCHANGED sessionVars
    /\ UNCHANGED <<knexVars, sysVars, objs>>

\* `closed = true` in a finally: set whether or not the connection's call
\* succeeded.
FinishReturnAlways(c) ==
    /\ c \in pending
    /\ c.op \in {"commit", "rollback"}
    /\ pending' = pending \ {c}
    /\ closed' = [closed EXCEPT ![c.scope] = TRUE]
    /\ last' = Outcome(c.op, IF c.ok THEN "ok" ELSE "ConnectionError", NoObj)
    /\ UNCHANGED <<nScopes, parent, isBase, knex, connected>>
    /\ UNCHANGED <<knexVars, sysVars, objs>>

\* The await of knex.commit() / knex.rollback() settles; on success the
\* scope's `closed` local is set.
FinishReturn(c) ==
    /\ c \in pending
    /\ c.op \in {"commit", "rollback"}
    /\ pending' = pending \ {c}
    /\ IF c.ok
       THEN /\ closed' = [closed EXCEPT ![c.scope] = TRUE]
            /\ last' = Outcome(c.op, "ok", NoObj)
            /\ UNCHANGED <<nScopes, parent, isBase, knex, connected>>
       ELSE /\ last' = Outcome(c.op, "ConnectionError", NoObj)
            /\ UNCHANGED sessionVars
    /\ UNCHANGED <<knexVars, sysVars, objs>>

\* ----------------------------------------------------------- System proxy
\* System.transaction: await db.transaction(), then createSystemProxy.
SystemTransaction(p) == Transaction(sysDb[p], p)

\* System.commit: await db.commit()
SystemCommit(p) == Commit(sysDb[p], p)

\* System.rollback: await db.rollback()
SystemRollback(p) == Rollback(sysDb[p], p)

\* ---------------------------------------------------------------- members
\* A handler.get that does not look its memo up: every read connects anew.
DbGetNoMemo(s, key) ==
    IF key \in AdminKeys
    THEN Returned("get", "admin", NoObj)
    ELSE IF key \notin Tables
    THEN Returned("get", "undefined", NoObj)
    ELSE /\ Len(objs) < Cardinality(Blueprints) + MaxBound
         /\ objs' = Connect(Models[key], knex[s]).heap
         /\ connected' = [connected EXCEPT ![s][key] = Connect(Models[key], knex[s]).ret]
         /\ last' = Outcome("get", "ok", Connect(Models[key], knex[s]).ret)
         /\ UNCHANGED <<nScopes, parent, isBase, closed, knex, knexVars, sysVars, pending>>

\* handler.get of the Database proxy. Reading a table key binds the
\* blueprint to the scope's connection the first time.
DbGet(s, key) ==
    IF key \in AdminKeys
    THEN Returned("get", "admin", NoObj)
    ELSE IF key \notin Tables
    THEN Returned("get", "undefined", NoObj)
    ELSE IF connected[s][key] # NoObj
    THEN Returned("get", "ok", connected[s][key])
    ELSE /\ Len(objs) < Cardinality(Blueprints) + MaxBound
         /\ objs' = Connect(Models[key], knex[s]).heap
         /\ connected' = [connected EXCEPT ![s][key] = Connect(Models[key], knex[s]).ret]
         /\ last' = Outcome("get", "ok", Connect(Models[key], knex[s]).ret)
         /\ UNCHANGED <<nScopes, parent, isBase, closed, knex, knexVars, sysVars, pending>>

\* handler.get of the System proxy. Reading a service key connects the
\* service to the wrapped Database scope the first time.
SysGet(p, key) ==
    IF key \in SysAdminKeys
    THEN Returned("get", "admin", NoObj)
    ELSE IF key \notin Services
    THEN Returned("get", "undefined", NoObj)
    ELSE IF sysConnected[p][key] # NoObj
    THEN Returned("get", "ok", sysConnected[p][key])
    ELSE /\ Len(objs) < Cardinality(Blueprints) + MaxBound
         /\ objs' = Connect(Sys[key], sysDb[p]).heap
         /\ sysConnected' = [sysConnected EXCEPT ![p][key] = Connect(Sys[key], sysDb[p]).ret]
         /\ last' = Outcome("get", "ok", Connect(Sys[key], sysDb[p]).ret)
         /\ UNCHANGED <<sessionVars, knexVars, nSys, sysDb, pending>>

\* A caller connects a table or service it holds (a blueprint or a clone).
UserConnect(o, c) ==
    /\ Len(objs) < MaxObjs
    /\ objs' = Connect(o, c).heap
    /\ last' = Outcome("connect", "ok", Connect(o, c).ret)
    /\ UNCHANGED <<sessionVars, knexVars, sysVars, pending>>

\* ------------------------------------------------------------- data calls
\* An insert issued on handle h: a finished handle refuses it; a handle left
\* open inside a finished one either refuses it or runs it outside any
\* transaction.
KnexInsert(h) ==
    /\ nRows < MaxRows
    /\ nRows' = nRows + 1
    /\ UNCHANGED <<nKnex, outer, completed>>
    /\ \E to \in (IF Live(h) THEN {h}
                  ELSE IF IsCompleted(h) THEN {NoConn}
                  ELSE {NoConn, Root}) :
          IF to = NoConn
          THEN /\ UNCHANGED <<rows, inserted>>
               /\ last' = Outcome("insert", "QueryError", NoObj)
          ELSE /\ rows' = [rows EXCEPT ![to] = @ \cup {[id |-> nRows + 1, via |-> h]}]
               /\ inserted' = inserted \cup {[id |-> nRows + 1, via |-> h]}
               /\ last' = Outcome("insert", "ok", nRows + 1)

\* Table.knex getter, as query() and every data call use it.
TableKnex(o) == objs[o].conn

\* A read query issued on handle h: a finished handle refuses it; a handle
\* left open inside a finished one refuses it or runs it.
KnexSelect(h) ==
    \E res \in (IF Live(h) THEN {"ok"}
                ELSE IF IsCompleted(h) THEN {"QueryError"}
                ELSE {"QueryError", "ok"}) :
        Returned("selectAll", res, NoObj)

\* Table.selectAll on a table object o the caller holds.
TableSelectAll(o) ==
    /\ objs[o].kind = "table"
    /\ IF TableKnex(o) = NoConn
       THEN Rejected("selectAll", "NotConnected")
       ELSE KnexSelect(TableKnex(o))

\* Service.db getter on a service object o the caller holds.
ServiceDb(o) ==
    /\ objs[o].kind = "service"
    /\ IF objs[o].conn = NoConn
       THEN Rejected("db", "NotConnected")
       ELSE Returned("db", "ok", objs[o].conn)

\* scope.Dynamic.insert(row): the member is read (and bound), then used.
ScopeInsert(s) ==
    /\ IF connected[s]["Dynamic"] # NoObj
       THEN /\ KnexInsert(TableKnex(connected[s]["Dynamic"]))
            /\ UNCHANGED <<objs, connected>>
       ELSE /\ Len(objs) < Cardinality(Blueprints) + MaxBound
            /\ objs' = Connect(Models["Dynamic"], knex[s]).heap
            /\ connected' = [connected EXCEPT
                    ![s]["Dynamic"] = Connect(Models["Dynamic"], knex[s]).ret]
            /\ KnexInsert(knex[s])
    /\ UNCHANGED <<nScopes, parent, isBase, closed, knex, sysVars, pending>>

\* Table.selectAll on table object o: the rows the connection returns.
SelectAll(o) == Visible(TableKnex(o))

\* scope.Dynamic.selectAll(): through the bound member, or the one a first
\* read would bind.
ScopeSelectAll(s) ==
    IF connected[s]["Dynamic"] # NoObj
    THEN SelectAll(connected[s]["Dynamic"])
    ELSE Visible(Connect(Models["Dynamic"], knex[s]).heap[Connect(Models["Dynamic"], knex[s]).ret].conn)

\* ------------------------------------------------------------ the callers
DbTransaction ==
    /\ \E s \in Scopes : Transaction(s, NoSys)
    /\ UNCHANGED callVars

DbCommit == (\E s \in Scopes : Commit(s, NoSys)) /\ UNCHANGED callVars

DbRollback == (\E s \in Scopes : Rollback(s, NoSys)) /\ UNCHANGED callVars

SysTransaction ==
    /\ \E p \in Systems : SystemTransaction(p)
    /\ UNCHANGED callVars

SysCommit == (\E p \in Systems : SystemCommit(p)) /\ UNCHANGED callVars

SysRollback == (\E p \in Systems : SystemRollback(p)) /\ UNCHANGED callVars

SettleTransaction ==
    /\ \E c \in pending : TransactionReturn(c)
    /\ UNCHANGED callVars

SettleFinish == (\E c \in pending : FinishReturn(c)) /\ UNCHANGED callVars

ReadTable ==
    /\ \E s \in Scopes, key \in Tables \cup OtherKeys \cup {"level"} : DbGet(s, key)
    /\ UNCHANGED callVars

ReadService ==
    /\ \E p \in Systems, key \in Services \cup OtherKeys \cup {"level"} : SysGet(p, key)
    /\ UNCHANGED callVars

ConnectTable ==
    /\ \E o \in ObjIds, h \in Handles : objs[o].kind = "table" /\ UserConnect(o, h)
    /\ UNCHANGED callVars

ConnectService ==
    /\ \E o \in ObjIds, s \in Scopes : objs[o].kind = "service" /\ UserConnect(o, s)
    /\ UNCHANGED callVars

UseTable == (\E o \in ObjIds : TableSelectAll(o)) /\ UNCHANGED callVars

UseService == (\E o \in ObjIds : ServiceDb(o)) /\ UNCHANGED callVars

InsertRow == (\E s \in Scopes : ScopeInsert(s)) /\ UNCHANGED callVars

\* A session driven through the Database scopes: transactions, commit and
\* rollback, calls in flight together.
Next ==
    \/ DbTransaction
    \/ DbCommit
    \/ DbRollback
    \/ SettleTransaction
    \/ SettleFinish

Spec == Init /\ [][Next]_vars

\* A session driven through the System proxies.
NextSystem ==
    \/ SysTransaction
    \/ SysCommit
    \/ SysRollback
    \/ SettleTransaction
    \/ SettleFinish

SpecSystem == Init /\ [][NextSystem]_vars

\* A caller that awaits each transaction, commit and rollback before its
\* next call.
AwaitedDbTransaction == pending = {} /\ DbTransaction

AwaitedSysTransaction == pending = {} /\ SysTransaction

AwaitedDbCommit == pending = {} /\ DbCommit

AwaitedDbRollback == pending = {} /\ DbRollback

AwaitedInsertRow == pending = {} /\ InsertRow

\* Member binding, on a session whose scopes come and go.
NextBind ==
    \/ AwaitedSysTransaction
    \/ SettleTransaction
    \/ ReadTable
    \/ ReadService

SpecBind == Init /\ [][NextBind]_vars

\* connect and the use of connected and unconnected tables and services.
NextConnect ==
    \/ AwaitedDbTransaction
    \/ SettleTransaction
    \/ ConnectTable
    \/ ConnectService
    \/ UseTable
    \/ UseService

SpecConnect == Init /\ [][NextConnect]_vars

\* Rows written through the scopes of a session.
NextStore ==
    \/ AwaitedDbTransaction
    \/ AwaitedDbCommit
    \/ AwaitedDbRollback
    \/ SettleTransaction
    \/ SettleFinish
    \/ AwaitedInsertRow

SpecStore == Init /\ [][NextStore]_vars

\* ==================================================================
\* Properties
\* ==================================================================

\* The scope s and the scopes above it, up to the base.
RECURSIVE Chain(_)
Chain(s) == {s} \cup (IF parent[s] = NoParent THEN {} ELSE Chain(parent[s]))

\* The scopes below s, s included.
Subtree(s) == {t \in Scopes : s \in Chain(t)}

TransactionStateErrors == {"NotInTransaction", "AlreadyCompleted"}

\* C1: a scope reports closed exactly when its own flag or the flag of a
\* scope above it is set; so once commit() or rollback() has succeeded on a
\* scope (its own flag is set), every scope below it, at any depth, reports
\* closed, whether or not it was ever committed or rolled back itself.
C1_ClosedCascades ==
    /\ \A s \in Scopes : Closed(s) <=> (\E a \in Chain(s) : closed[a])
    /\ \A s \in Scopes : closed[s] => \A d \in Subtree(s) : Closed(d)

\* A grandchild never committed or rolled back, under a child that was.
C1_Witness ==
    \E d \in Scopes :
        /\ parent[d] # NoParent
        /\ parent[parent[d]] # NoParent
        /\ closed[parent[d]]
        /\ ~closed[d]
        /\ Closed(d)

\* C3: the base scope has level 0, a scope made by S.transaction() has level
\* S.level + 1 (its level is the number of scopes above it), and no step,
\* closing included, changes the level of a scope.
C3_Levels ==
    /\ [](/\ Level(Base) = 0
          /\ \A s \in Scopes : Level(s) = Cardinality(Chain(s)) - 1
          /\ \A s \in Scopes \ {Base} : Level(s) = Level(parent[s]) + 1)
    /\ [][\A s \in Scopes : Level(s)' = Level(s)]_vars

\* A grandchild of the base, at level 2, after the scope above it closed.
C3_Witness ==
    \E s \in Scopes : Level(s) = 2 /\ closed[parent[s]]

\* C4: a closed scope never reopens: a scope that reports closed in a state
\* reports closed in the next, whatever the step.
C4_ClosedIsForever ==
    [][\A s \in Scopes : Closed(s) => Closed(s)']_vars

\* A scope was closed, and a transaction was opened on another scope later.
C4_Witness ==
    \E s, t \in Scopes : closed[s] /\ t > s /\ Closed(s) /\ ~Closed(t)
\* The step hands op to the connection of scope s.
KnexCalled(op, s) ==
    \E c \in pending' \ pending : c.op = op /\ c.trx = knex[s] /\ c.scope = s

FinishOps == {"commit", "rollback"}

\* C2 as stated: commit() and rollback() on the base scope or on a closed
\* scope reject with TransactionStateError, do not reach the connection and
\* change no closed flag; on every other scope they call the connection's
\* commit / rollback, and set the scope's own flag when that resolves.
C2_Original ==
    /\ [][\A op \in FinishOps, s \in Scopes : Finish(op, s, NoSys) =>
            IF isBase[s] \/ Closed(s)
            THEN /\ last'.res \in TransactionStateErrors
                 /\ ~KnexCalled(op, s)
                 /\ closed' = closed /\ completed' = completed
            ELSE KnexCalled(op, s)]_vars
    /\ [][\A c \in pending : (FinishReturn(c) /\ c.ok) => closed'[c.scope]]_vars

\* commit() or rollback() on the base scope was refused, and not with the
\* error the method keeps for the base scope.
C2_Witness ==
    /\ last.op \in FinishOps
    /\ last.res = "TypeError"
    /\ \E s \in Scopes \ {Base} : closed[s]

\* C5: transaction() on a closed scope rejects, takes no handle from the
\* connection and makes no scope; on a scope that is not closed it takes
\* exactly one new handle, from the scope's own connection; the scope made
\* when the call settles is the only scope with that handle, so no two
\* scopes (parent, child or sibling) ever share a connection.
C5_TransactionOnlyWhenActive ==
    /\ [][\A s \in Scopes : Transaction(s, NoSys) =>
            IF Closed(s)
            THEN /\ last'.res = "AlreadyCompleted"
                 /\ nKnex' = nKnex /\ nScopes' = nScopes /\ pending' = pending
            ELSE /\ nKnex' = nKnex + 1
                 /\ outer'[nKnex] = knex[s]
                 /\ \A t \in Scopes : knex[t] # nKnex
                 /\ \E c \in pending' \ pending :
                        c.op = "transaction" /\ c.scope = s /\ c.trx = nKnex
                 /\ nScopes' = nScopes]_vars
    /\ [][\A c \in pending : (TransactionReturn(c) /\ c.ok) =>
            /\ nScopes' = nScopes + 1
            /\ knex'[nScopes] = c.trx
            /\ parent'[nScopes] = c.scope
            /\ \A t \in Scopes : knex'[t] = knex[t] /\ knex[t] # c.trx]_vars
    /\ [](\A s, t \in Scopes : s # t => knex[s] # knex[t])

\* transaction() was refused on a closed scope that has a sibling.
C5_Witness ==
    /\ last.op = "transaction"
    /\ last.res = "AlreadyCompleted"
    /\ \E s, t \in Scopes : s # t /\ parent[s] = parent[t] /\ closed[s] /\ ~Closed(t)

\* C6: a commit or rollback closes the scope it is called on and the scopes
\* below it, and no other: what the scopes above it and beside it report as
\* closed is unchanged, their connections are untouched, and each of them that
\* is not closed still has its transaction(), commit() and rollback() accepted.
C6_ClosesOnlyItsSubtree ==
    /\ [][\A c \in pending : FinishReturn(c) =>
            \A t \in Scopes \ Subtree(c.scope) :
                Closed(t)' = Closed(t) /\ closed'[t] = closed[t]]_vars
    /\ [][\A op \in FinishOps, s \in Scopes : Finish(op, s, NoSys) =>
            \A t \in Scopes \ {s} : completed'[knex[t]] = completed[knex[t]]]_vars
    /\ [][\A t \in Scopes : ~Closed(t) =>
            /\ Transaction(t, NoSys) => last'.res = "pending"
            /\ (~isBase[t] /\ ~IsCompleted(knex[t])) =>
                  \A op \in FinishOps : Finish(op, t, NoSys) => KnexCalled(op, t)]_vars

\* Two siblings were each committed or rolled back, one after the other,
\* under a parent that is still open.
C6_Witness ==
    \E s, t \in Scopes :
        /\ s # t /\ parent[s] = parent[t] /\ parent[s] # NoParent
        /\ closed[s] /\ closed[t]
        /\ ~Closed(parent[s])

\* ------------------------------------------------------- row conversion
\* Values, by what they are in JavaScript: "0" and "1" are the numbers 0 and
\* 1, "true" and "false" the booleans, "7" a number, "s" a string, "u" a
\* uuid string; one instant is "dt" as a DateTime and "iso" and "ms" as an
\* ISO string and a number of milliseconds.
Absent == "<undefined>"
Null == "<null>"

\* Boolean(value)
\* A Boolean that takes the text of a stored 0 for a non-empty string.
BooleanOfString(v) == IF v = "false" THEN "false" ELSE "true"

Boolean(v) == IF v \in {"0", "false"} THEN "false" ELSE "true"

\* DatabaseDate.toDateTime(date)
toDateTime(v) == "dt"

\* DatabaseDate.fromDateTime(date), the column made with no `type`.
fromDateTime(v) == "iso"

booleanColumn(required) ==
    [kind |-> "boolean", required |-> required, modifiable |-> TRUE]

integerColumn(required) ==
    [kind |-> "integer", required |-> required, modifiable |-> TRUE]

numberColumn(required) ==
    [kind |-> "number", required |-> required, modifiable |-> TRUE]

stringColumn(required) ==
    [kind |-> "string", required |-> required, modifiable |-> TRUE]

datetimeColumn(required) ==
    [kind |-> "datetime", required |-> required, modifiable |-> TRUE]

uuidColumn(required) ==
    [kind |-> "uuid", required |-> required, modifiable |-> TRUE]

idColumn == [kind |-> "id", required |-> TRUE, modifiable |-> FALSE]

externalColumn == [kind |-> "external", required |-> TRUE, modifiable |-> FALSE]

createdColumn == [kind |-> "created", required |-> TRUE, modifiable |-> FALSE]

updatedColumn == [kind |-> "updated", required |-> TRUE, modifiable |-> FALSE]

DateKinds == {"datetime", "created", "updated"}

\* column.toUser(value)
ColumnToUser(column, v) ==
    IF column.kind = "boolean" THEN Boolean(v)
    ELSE IF column.kind \in DateKinds THEN toDateTime(v)
    ELSE v

\* column.toDatabase(value)
ColumnToDatabase(column, v) ==
    IF column.kind = "boolean" THEN Boolean(v)
    ELSE IF column.kind \in DateKinds THEN fromDateTime(v)
    ELSE v

\* column[fn](value)
\* A lookup that takes the function of the other direction.
ColumnFnSwapped(column, fn, v) ==
    IF fn = "toUser" THEN ColumnToDatabase(column, v) ELSE ColumnToUser(column, v)

ColumnFn(column, fn, v) ==
    IF fn = "toUser" THEN ColumnToUser(column, v) ELSE ColumnToDatabase(column, v)

\* A conversion that returned out, and one that threw err at column key.
Converted(out) == [err |-> "none", key |-> "", out |-> out]

Thrown(err, key) == [err |-> err, key |-> key, out |-> <<>>]

\* keys.reduce(...) of convertRow from the i-th key on, result so far given.
\* A row definition is [keys, cols]: Object.keys(row) and row[key]; a data
\* record is a function giving Absent for a key it does not hold; a result
\* is the sequence of its [key, value] entries, in insertion order.
RECURSIVE Reduce(_, _, _, _, _, _, _)
Reduce(i, result, keys, row, data, fn, optionals) ==
    IF i > Len(keys)
    THEN Converted(result)
    ELSE LET key == keys[i]
             column == row.cols[key]
             value == data[key]
         IN  IF value = Absent
             THEN IF column.required /\ ~optionals
                  THEN Thrown("ValueMissing", key)
                  ELSE Reduce(i + 1, result, keys, row, data, fn, optionals)
             ELSE IF value = Null
             THEN IF column.required
                  THEN Thrown("ValueNull", key)
                  ELSE Reduce(i + 1, Append(result, [key |-> key, value |-> Null]),
                              keys, row, data, fn, optionals)
             ELSE Reduce(i + 1,
                         Append(result, [key |-> key,
                                         value |-> ColumnFn(column, fn, value)]),
                         keys, row, data, fn, optionals)

\* A convertRow that polices absent values whatever optionals says.
convertRowStrict(keys, row, data, fn, optionals) ==
    Reduce(1, <<>>, keys, row, data, fn, FALSE)

convertRow(keys, row, data, fn, optionals) ==
    Reduce(1, <<>>, keys, row, data, fn, optionals)

\* The for loop of convertRows over an array, from the i-th item on.
RECURSIVE ConvertItems(_, _, _, _, _, _, _)
ConvertItems(i, results, keys, row, items, fn, optionals) ==
    IF i > Len(items)
    THEN Converted(results)
    ELSE LET r == convertRow(keys, row, items[i], fn, optionals)
         IN  IF r.err # "none"
             THEN r
             ELSE ConvertItems(i + 1, Append(results, r.out), keys, row, items,
                               fn, optionals)

\* The allowed keys of convertRows.
\* A key selection that never filters.
AllowedKeysAll(row, filter) == row.keys

AllowedKeys(row, filter) ==
    IF ~filter
    THEN row.keys
    ELSE SelectSeq(row.keys, LAMBDA key : row.cols[key].modifiable)

\* convertRows(fn, filter, optionals)(row, data); data is [array, items],
\* a single record being the one item of a data that is no array.
convertRows(fn, filter, optionals, row, data) ==
    IF data.array
    THEN ConvertItems(1, <<>>, AllowedKeys(row, filter), row, data.items, fn,
                      optionals)
    ELSE convertRow(AllowedKeys(row, filter), row, data.items[1], fn, optionals)

\* Row: the four converters, rowConverter(filter, optionals).
\* A Row whose insert converter takes absent values as optional.
RowInsertOptional ==
    [select |-> [filter |-> FALSE, optionals |-> FALSE],
     where  |-> [filter |-> FALSE, optionals |-> TRUE],
     insert |-> [filter |-> TRUE,  optionals |-> TRUE],
     update |-> [filter |-> TRUE,  optionals |-> TRUE]]

Row ==
    [select |-> [filter |-> FALSE, optionals |-> FALSE],
     where  |-> [filter |-> FALSE, optionals |-> TRUE],
     insert |-> [filter |-> TRUE,  optionals |-> FALSE],
     update |-> [filter |-> TRUE,  optionals |-> TRUE]]

RowActions == {"select", "where", "insert", "update"}

RowFns == {"toUser", "toDatabase"}

\* Row[action][fn](row, data)
RowConvert(action, fn, row, data) ==
    convertRows(fn, Row[action].filter, Row[action].optionals, row, data)

\* ------------------------------------------------ calls of the converters
\* The column definitions ColumnFunctions can make.
Columns ==
    {booleanColumn(r) : r \in BOOLEAN} \cup {integerColumn(r) : r \in BOOLEAN}
    \cup {stringColumn(r) : r \in BOOLEAN} \cup {datetimeColumn(r) : r \in BOOLEAN}
    \cup {numberColumn(FALSE), uuidColumn(TRUE)}
    \cup {idColumn, externalColumn, createdColumn, updatedColumn}

\* The names of the columns of a row definition, in the order it lists them.
ColumnNames == <<"a", "b", "c", "d">>

\* A key data records carry that no row definition has.
Extra == "extra"

\* The row definition listing the columns cs under the names a, b, ...
MakeRow(cs) ==
    [keys |-> [i \in 1 .. Len(cs) |-> ColumnNames[i]],
     cols |-> [k \in {ColumnNames[i] : i \in 1 .. Len(cs)} |->
                 cs[CHOOSE i \in 1 .. Len(cs) : ColumnNames[i] = k]]]

Schemas == {MakeRow(cs) : cs \in UNION {[1 .. n -> Columns] : n \in 1 .. MaxCols}}

\* The values a column holds in the database / in user code.
DatabaseValues(column) ==
    IF column.kind = "boolean" THEN {"0", "1", "true", "false"}
    ELSE IF column.kind \in DateKinds THEN {"iso", "ms"}
    ELSE IF column.kind \in {"integer", "number"} THEN {"7"}
    ELSE IF column.kind = "id" THEN {"1"}
    ELSE IF column.kind = "string" THEN {"s"}
    ELSE {"u"}

UserValues(column) ==
    IF column.kind = "boolean" THEN {"true", "false"}
    ELSE IF column.kind \in DateKinds THEN {"dt"}
    ELSE DatabaseValues(column)

\* What a record given to fn may hold for a column: nothing, null, a value.
Givens(column, fn) ==
    {Absent, Null} \cup
        (IF fn = "toUser" THEN DatabaseValues(column) ELSE UserValues(column))

\* The data records a caller can give fn for the first i columns of row; all
\* carry the extra key.
RECURSIVE Records(_, _, _)
Records(row, fn, i) ==
    IF i = 0
    THEN {[k \in {Extra} |-> "s"]}
    ELSE {(row.keys[i] :> v) @@ r :
            r \in Records(row, fn, i - 1),
            v \in Givens(row.cols[row.keys[i]], fn)}

Single(record) == [array |-> FALSE, items |-> <<record>>]

Array(items) == [array |-> TRUE, items |-> items]

\* The row definition arrays are converted under: an id, a required string
\* and an optional integer.
ArrayRow == MakeRow(<<idColumn, stringColumn(TRUE), integerColumn(FALSE)>>)

Arrays(fn) ==
    {Array(items) :
        items \in UNION {[1 .. n -> Records(ArrayRow, fn, Len(ArrayRow.keys))] :
                            n \in 0 .. MaxLen}}

\* A converter call: Row[action][fn](row, data).
ConvertCall(action, fn, row, data) ==
    [op |-> "convert", action |-> action, fn |-> fn, row |-> row, data |-> data]

\* A caller about to convert one record under some row definition, or an
\* array of records.
InitRow ==
    /\ InitSession
    /\ output = NoCall
    /\ \E action \in RowActions, fn \in RowFns :
          \/ \E row \in Schemas :
                \E d \in Records(row, fn, Len(row.keys)) :
                    input = ConvertCall(action, fn, row, Single(d))
          \/ \E data \in Arrays(fn) :
                input = ConvertCall(action, fn, ArrayRow, data)

\* The call runs.
Convert ==
    /\ input.op = "convert"
    /\ output = NoCall
    /\ output' = RowConvert(input.action, input.fn, input.row, input.data)
    /\ UNCHANGED <<sessionVars, knexVars, sysVars, objs, pending, last, input>>

\* The data record an object with the entries out is.
AsRecord(row, out) ==
    [k \in {row.keys[i] : i \in 1 .. Len(row.keys)} \cup {Extra} |->
        IF \E i \in 1 .. Len(out) : out[i].key = k
        THEN out[CHOOSE i \in 1 .. Len(out) : out[i].key = k].value
        ELSE Absent]

\* The caller hands the user record it got from toUser to toDatabase.
ConvertBack ==
    /\ input.op = "convert" /\ input.fn = "toUser" /\ ~input.data.array
    /\ output # NoCall /\ output.err = "none"
    /\ "back" \notin DOMAIN output
    /\ output' = [err |-> output.err, key |-> output.key, out |-> output.out,
                  back |-> RowConvert(input.action, "toDatabase", input.row,
                                      Single(AsRecord(input.row, output.out)))]
    /\ UNCHANGED <<sessionVars, knexVars, sysVars, objs, pending, last, input>>

NextRow == Convert \/ ConvertBack

SpecRow == InitRow /\ [][NextRow]_vars

\* ------------------------------------------------------------ insertMany
\* A reading of the threshold that sends equality down the direct path.
BatchPathStrict(n, batch) == batch < n

\* if (batch <= rows.length): the batch path, else the direct one.
BatchPath(n, batch) == batch <= n

\* rows.slice: a relative index of Array.prototype.slice on n rows; a
\* negative one counts from the end, and both ends are clamped.
SliceIndex(x, n) ==
    IF x < 0 THEN (IF n + x < 0 THEN 0 ELSE n + x)
    ELSE IF x > n THEN n ELSE x

\* rows.slice(i) in place of rows.slice(i, i + batch).
SliceToEnd(i, batch, n) == {k \in 1 .. n : SliceIndex(i, n) < k}

\* rows.slice(i, i + batch), the rows of the call numbered from 1.
Slice(i, batch, n) ==
    {k \in 1 .. n : SliceIndex(i, n) < k /\ k <= SliceIndex(i + batch, n)}

\* The rows numbered ids once stored through handle h.
ManyRows(ids, h) == {[id |-> k, via |-> h] : k \in ids}

\* One insert statement the call issued: the handle and the rows given.
Statement(h, ids) == [conn |-> h, rows |-> ids]

\* One call of the observer: the rows and the index it was given, and the
\* number of insert statements the call had issued by then.
Observed(ids, i, at) == [rows |-> ids, index |-> i, at |-> at]

\* The statements and observer calls of a call are kept up to this many;
\* a call that goes on issues more.
MaxLog == MaxMany + 1

Logged(log, e) == IF Len(log) < MaxLog THEN Append(log, e) ELSE log

\* onBatch?.(slice, i): no call when the caller passed no observer.
OnBatch(seen, ids, i, at) ==
    IF input.observer = "none" THEN seen ELSE Logged(seen, Observed(ids, i, at))

\* i += batch. Every index at or below -rows.length slices alike, and
\* the least of them stands for them all.
Advance(i, batch, n) == IF i + batch < -n THEN -n ELSE i + batch

\* The caller is not inside a call of insertMany.
BatchIdle ==
    IF input = NoCall THEN TRUE ELSE output.pc \in {"resolved", "rejected"}

\* The observers a call may be given: none, one that returns, and one that
\* throws when called; row `bad` of the call, if any, is one the store
\* refuses (a uniqueness violation).
ManyInputs ==
    {[n |-> n, batch |-> batch, bad |-> bad, observer |-> o] :
        n \in 0 .. MaxMany, batch \in -1 .. MaxMany + 1, bad \in 0 .. MaxMany,
        o \in {"none", "returns", "throws"}}

\* scope.Dynamic.insertMany(rows, batch, onBatch) up to its first await. The
\* table is the one bound to scope s, its connection knex[s]. On the batch
\* path the call awaits this.knex.transaction(); on the direct path it calls
\* the observer and issues its one insert, which stores all the rows or,
\* refused, none.
InsertManyCall ==
    /\ input = NoCall
    /\ pending = {}
    /\ \E s \in Scopes, in \in ManyInputs :
        /\ in.bad <= in.n
        /\ in.observer = "throws" => in.bad = 0
        /\ knex[s] \in {h \in Handles : Live(h)}
        /\ input' = [op |-> "insertMany", conn |-> knex[s], n |-> in.n,
                     batch |-> in.batch, bad |-> in.bad,
                     observer |-> in.observer]
        /\ IF BatchPath(in.n, in.batch)
           THEN /\ nKnex < MaxScopes
                /\ KnexTransaction(knex[s], TRUE)
                /\ output' = [pc |-> "batch", trx |-> nKnex, i |-> 0,
                              log |-> <<>>, seen |-> <<>>]
           ELSE /\ output' =
                    [pc |-> IF in.bad = 0 /\ in.observer # "throws"
                            THEN "resolved" ELSE "rejected",
                     trx |-> NoConn, i |-> 0,
                     log |-> IF in.observer = "throws" THEN <<>>
                             ELSE <<Statement(knex[s], 1 .. in.n)>>,
                     seen |-> IF in.observer = "none" THEN <<>>
                              ELSE <<Observed(1 .. in.n, 0, 0)>>]
                /\ rows' = IF in.bad = 0 /\ in.observer # "throws"
                           THEN [rows EXCEPT ![knex[s]] =
                                    @ \cup ManyRows(1 .. in.n, knex[s])]
                           ELSE rows
                /\ UNCHANGED <<nKnex, outer, completed>>
    /\ UNCHANGED <<sessionVars, sysVars, objs, pending, nRows, inserted, last>>

\* One turn of the for loop up to its await: the slice is taken, the
\* observer is called, and trx(this.name).insert(slice) is issued. An
\* observer that throws leaves the function at once.
InsertManyBatch ==
    /\ input.op = "insertMany"
    /\ output.pc = "batch"
    /\ output.i < input.n
    /\ LET slice == Slice(output.i, input.batch, input.n) IN
       output' = [output EXCEPT
            !.seen = OnBatch(@, slice, output.i, Len(output.log)),
            !.pc = IF input.observer = "throws" THEN "rejected" ELSE "insert",
            !.log = IF input.observer = "throws" THEN @
                    ELSE Logged(@, Statement(output.trx, slice))]
    /\ UNCHANGED <<sessionVars, knexVars, sysVars, objs, pending, last, input>>

\* The await of the insert settles. A refused insert stores nothing and its
\* rejection leaves the function at once; otherwise the loop goes on.
InsertManySettle ==
    /\ input.op = "insertMany"
    /\ output.pc = "insert"
    /\ LET slice == Slice(output.i, input.batch, input.n) IN
       IF input.bad \in slice
       THEN /\ output' = [output EXCEPT !.pc = "rejected"]
            /\ UNCHANGED rows
       ELSE /\ output' = [output EXCEPT
                    !.pc = "batch",
                    !.i = Advance(@, input.batch, input.n)]
            /\ rows' = [rows EXCEPT ![output.trx] =
                            @ \cup ManyRows(slice, output.trx)]
    /\ UNCHANGED <<sessionVars, sysVars, objs, pending, nRows, inserted, last,
                   nKnex, outer, completed, input>>

\* await trx.commit(), after the loop.
InsertManyCommit ==
    /\ input.op = "insertMany"
    /\ output.pc = "batch"
    /\ output.i >= input.n
    /\ KnexFinish("commit", output.trx, TRUE)
    /\ output' = [output EXCEPT !.pc = "resolved"]
    /\ UNCHANGED <<sessionVars, sysVars, objs, pending, nRows, inserted, last,
                   nKnex, outer, input>>

\* The caller's own transactions, begun and ended between its calls.
CallerTransaction == BatchIdle /\ AwaitedDbTransaction

CallerCommit == BatchIdle /\ AwaitedDbCommit

CallerRollback == BatchIdle /\ AwaitedDbRollback

\* A caller that passes a batch size of at least one and no observer.
PlainInsertMany ==
    InsertManyCall /\ input'.observer = "none" /\ input'.batch >= 1

\* insertMany on tables bound to the scopes of a session.
NextMany ==
    \/ CallerTransaction
    \/ CallerCommit
    \/ CallerRollback
    \/ SettleTransaction
    \/ SettleFinish
    \/ PlainInsertMany
    \/ InsertManyBatch
    \/ InsertManySettle
    \/ InsertManyCommit

SpecMany == Init /\ [][NextMany]_vars

\* insertMany alone, on the table bound to the base scope, with every batch
\* size and observer.
NextBatch ==
    \/ InsertManyCall
    \/ InsertManyBatch
    \/ InsertManySettle
    \/ InsertManyCommit

SpecBatch == Init /\ [][NextBatch]_vars

\* A connection whose calls all complete, and a caller whose turn of the
\* loop runs once its await has settled.
BatchFairness ==
    /\ WF_vars(InsertManyBatch)
    /\ WF_vars(InsertManySettle)
    /\ WF_vars(InsertManyCommit)

SpecBatchFair == SpecBatch /\ BatchFairness

\* ------------------------------------------------------- update payloads
\* DatabaseDate.now('string')
Now == "now"

\* The constructor's #updates: the columns of kind 'updated', or the list of
\* the table it is given.
DynamicTable(from) ==
    IF "updates" \in DOMAIN from
    THEN [row |-> from.row, updates |-> from.updates, knex |-> NoConn]
    ELSE [row |-> from.row,
          updates |-> SelectSeq(from.row.keys,
                                LAMBDA column : from.row.cols[column].kind = "updated"),
          knex |-> NoConn]

\* Table.connect on a dynamic table: __clone, then the clone's connection.
TableConnect(table, h) == [DynamicTable(table) EXCEPT !.knex = h]

\* The loop of #processUpdates: the caller's row, each #updates column set.
Stamped(table, data) ==
    [k \in DOMAIN data |->
        IF \E i \in 1 .. Len(table.updates) : table.updates[i] = k
        THEN Now
        ELSE data[k]]

\* #processUpdates(row): the payload update and updateBy hand to the store.
processUpdates(table, data) ==
    RowConvert("update", "toDatabase", table.row, Single(Stamped(table, data)))

\* A table made from its properties, and a caller about to update through it
\* with some record.
InitUpdate ==
    /\ InitSession
    /\ output = NoCall
    /\ \E row \in Schemas, op \in {"update", "updateBy"} :
          \E d \in Records(row, "toDatabase", Len(row.keys)) :
              input = [op |-> op, table |-> DynamicTable([row |-> row]),
                       data |-> d]

\* The caller connects the table it holds and goes on with the clone.
ConnectDynamic ==
    /\ input.op \in {"update", "updateBy"}
    /\ output = NoCall
    /\ input.table.knex = NoConn
    /\ input' = [input EXCEPT !.table = TableConnect(input.table, Root)]
    /\ UNCHANGED <<sessionVars, knexVars, sysVars, objs, pending, last, output>>

\* update(id, row) / updateBy(conditions, row) on a connected table: the
\* payload is built and handed to the store; the caller's row is stamped.
Update ==
    /\ input.op \in {"update", "updateBy"}
    /\ output = NoCall
    /\ input.table.knex # NoConn
    /\ output' = [payload |-> processUpdates(input.table, input.data),
                  row |-> Stamped(input.table, input.data)]
    /\ UNCHANGED <<sessionVars, knexVars, sysVars, objs, pending, last, input>>

NextUpdate == ConnectDynamic \/ Update

SpecUpdate == InitUpdate /\ [][NextUpdate]_vars

\* ---------------------------------------------------------- static tables
\* Row ids are counted in halves, so that 3 is the id 1.5: 0, 1, 1.5, 2.
IdValues == {0, 2, 3, 4}

\* Number.isInteger(row.id)
IsInteger(id) == id % 2 = 0

\* row.id < 1
BelowOne(id) == id < 2

\* A created value: whether its text has the form \d{4}-\d{2}-\d{2}, and the
\* month and day it names (the year is 2024 throughout).
CreatedValues ==
    {[form |-> TRUE, m |-> 1, d |-> 1], [form |-> TRUE, m |-> 1, d |-> 2],
     [form |-> TRUE, m |-> 2, d |-> 30], [form |-> FALSE, m |-> 1, d |-> 1]}

\* getDates()[by] for an index past the end.
Undefined == [form |-> FALSE, m |-> 0, d |-> 0]

DaysIn(m) == IF m = 2 THEN 29 ELSE IF m \in {4, 6, 9, 11} THEN 30 ELSE 31

\* DatabaseDate.validate.date: the form, then a date of the calendar.
validateDate(c) == c.form /\ c.m \in 1 .. 12 /\ c.d \in 1 .. DaysIn(c.m)

\* The place of a date text in the order of strings.
DateKey(c) == c.m * 100 + c.d

StaticRows == [id : IdValues, created : CreatedValues]

\* The keys of a dataset, in the order Object.entries lists them.
DataKeys == <<"row1", "row2", "row3", "row4">>

\* #validateRow up to its return: the error it throws, or none.
validateRow(row) ==
    IF ~IsInteger(row.id) \/ BelowOne(row.id)
    THEN "StaticRow.id must be an integer >= 1"
    ELSE IF ~validateDate(row.created)
    THEN "StaticRow.created must be in form YYYY-MM-DD"
    ELSE "none"

\* A validateRow that returns the row it was given.
ShareRow(heap, ref) == [heap |-> heap, ref |-> ref]

\* return { ...row }: a new object with the fields of the one at ref.
CopyRow(heap, ref) == [heap |-> Append(heap, heap[ref]), ref |-> Len(heap) + 1]

\* The table that could not be made.
NoTable(at, msg, heap) ==
    [err |-> "ValidationError", at |-> at, msg |-> msg, exists |-> FALSE,
     heap |-> heap, data |-> <<>>, frozen |-> FALSE]

\* The loop of #validateData from entry i on; rows is the map built so far.
RECURSIVE ValidateFrom(_, _, _, _)
ValidateFrom(i, heap, data, map) ==
    IF i > Len(data)
    THEN [err |-> "none", at |-> 0, msg |-> "none", exists |-> TRUE,
          heap |-> heap, data |-> map, frozen |-> TRUE]
    ELSE IF validateRow(heap[data[i].ref]) # "none"
    THEN NoTable(i, validateRow(heap[data[i].ref]), heap)
    ELSE ValidateFrom(i + 1, CopyRow(heap, data[i].ref).heap, data,
                      Append(map, [key |-> data[i].key,
                                    ref |-> CopyRow(heap, data[i].ref).ref]))

\* index[row.id] = row, for the entries of the map in order: an id holds the
\* row of the last entry that carries it.
IndexOf(heap, map) ==
    [id \in {heap[map[i].ref].id : i \in 1 .. Len(map)} |->
        map[CHOOSE i \in 1 .. Len(map) :
                /\ heap[map[i].ref].id = id
                /\ \A j \in 1 .. Len(map) : heap[map[j].ref].id = id => j <= i].ref]

\* #validateData(from.data): the map and the id index.
validateData(heap, data) ==
    LET made == ValidateFrom(1, heap, data, <<>>)
    IN  [index |-> IndexOf(made.heap, made.data)] @@ made

\* A row that is not there.
NoRow == 0

\* An argument of getRow and getId: an id or a key.
ById(id) == [num |-> TRUE, id |-> id, key |-> ""]

ByKey(key) == [num |-> FALSE, id |-> 0, key |-> key]

\* getRow(by): the row object of the table, or NoRow where it throws.
getRow(table, by) ==
    IF by.num
    THEN IF by.id \in DOMAIN table.index THEN table.index[by.id] ELSE NoRow
    ELSE IF \E i \in 1 .. Len(table.data) : table.data[i].key = by.key
    THEN table.data[CHOOSE i \in 1 .. Len(table.data) :
                        table.data[i].key = by.key].ref
    ELSE NoRow

\* getId(by): this.getRow(by).id, or NoRow where getRow throws.
getId(heap, table, by) ==
    IF getRow(table, by) = NoRow THEN NoRow ELSE heap[getRow(table, by)].id

\* The rows of a table's map, read through the heap.
TableRows(heap, data) == [i \in 1 .. Len(data) |-> heap[data[i].ref]]

\* The created values in first-occurrence order, as new Set keeps them.
RECURSIVE Distinct(_)
Distinct(seq) ==
    IF seq = <<>> THEN <<>>
    ELSE LET front == Distinct(SubSeq(seq, 1, Len(seq) - 1)) IN
         IF \E i \in 1 .. Len(front) : front[i] = seq[Len(seq)]
         THEN front
         ELSE Append(front, seq[Len(seq)])

\* Array.prototype.sort of date texts.
RECURSIVE Sort(_)
Sort(S) ==
    IF S = {} THEN <<>>
    ELSE LET least == CHOOSE x \in S : \A y \in S : DateKey(x) <= DateKey(y)
         IN  <<least>> \o Sort(S \ {least})

\* A getDates that leaves out the sort.
getDatesUnsorted(heap, data) ==
    Distinct([i \in 1 .. Len(data) |-> TableRows(heap, data)[i].created])

\* getDates(): [...new Set(Object.values(this.data).map(row => row.created))].sort()
getDates(heap, data) ==
    Sort({getDatesUnsorted(heap, data)[i] :
            i \in 1 .. Len(getDatesUnsorted(heap, data))})

\* An argument of add and remove: an index or a date.
ByIndex(i) == [num |-> TRUE, i |-> i, date |-> Undefined]

ByDate(c) == [num |-> FALSE, i |-> 0, date |-> c]

Bys ==
    {ByIndex(i) : i \in 0 .. MaxData}
    \cup {ByDate(c) : c \in {x \in CreatedValues : validateDate(x)}}

\* if (typeof by === 'number') by = this.getDates()[by]
Resolve(heap, data, by) ==
    IF ~by.num THEN by.date
    ELSE IF by.i < Len(getDates(heap, data))
    THEN getDates(heap, data)[by.i + 1]
    ELSE Undefined

\* Object.values(this.#props.data).filter(row => row.created === by)
RowsOf(heap, data, date) ==
    SelectSeq(TableRows(heap, data), LAMBDA row : row.created = date)

\* insert(rows) into a table whose id is its primary key: all the rows, or
\* none when an id is taken or given twice.
StoreInsert(stored, rs) ==
    IF \/ \E i \in 1 .. Len(rs) : \E r \in stored : r.id = rs[i].id
       \/ \E i, j \in 1 .. Len(rs) : i # j /\ rs[i].id = rs[j].id
    THEN [ok |-> FALSE, stored |-> stored]
    ELSE [ok |-> TRUE, stored |-> stored \cup {rs[i] : i \in 1 .. Len(rs)}]

\* delete().where({created: by}); an undefined binding is refused.
StoreDelete(stored, date) ==
    IF date = Undefined
    THEN [ok |-> FALSE, stored |-> stored]
    ELSE [ok |-> TRUE, stored |-> {r \in stored : r.created # date}]

\* The datasets a table is made from: entry i has key DataKeys[i] and is
\* the object at ref i of the heap.
InitStatic ==
    /\ InitSession
    /\ output = NoCall
    /\ \E n \in 0 .. MaxData : \E given \in [1 .. n -> StaticRows] :
          input = [op |-> "static", given |-> given, heap |-> given,
                   data |-> [i \in 1 .. n |-> [key |-> DataKeys[i], ref |-> i]],
                   changed |-> FALSE]

\* new StaticTable({..., data}): the table, or the error of the first row
\* that fails; the copies are new objects of the heap.
Construct ==
    /\ input.op = "static"
    /\ output = NoCall
    /\ LET made == validateData(input.heap, input.data) IN
        /\ input' = [input EXCEPT !.heap = made.heap]
        /\ output' = [err |-> made.err, at |-> made.at, msg |-> made.msg,
                      exists |-> made.exists, data |-> made.data,
                      frozen |-> made.frozen, index |-> made.index,
                      stored |-> {},
                      call |-> [op |-> "new", by |-> ByIndex(0), ok |-> made.exists,
                                before |-> 0],
                      dates |-> <<>>]
    /\ UNCHANGED <<sessionVars, knexVars, sysVars, objs, pending, last>>

\* The table is there to be used.
Made == input.op = "static" /\ output # NoCall /\ output.exists

\* What the caller later writes into a row object of its dataset.
Scribble == [id |-> 3, created |-> [form |-> FALSE, m |-> 1, d |-> 1]]

\* The caller changes a row object of the dataset it built the table from.
ChangeDataset ==
    /\ Made
    /\ ~input.changed
    /\ \E i \in 1 .. Len(input.data) :
          input' = [input EXCEPT !.heap[input.data[i].ref] = Scribble,
                                 !.changed = TRUE]
    /\ UNCHANGED <<sessionVars, knexVars, sysVars, objs, pending, last, output>>

\* The caller assigns a key of table.data: a frozen map refuses it.
AssignKey ==
    /\ Made
    /\ output.call.op = "new"
    /\ \E i \in 1 .. Len(output.data) :
          output' = [output EXCEPT
                !.data = IF output.frozen THEN @
                         ELSE [@ EXCEPT ![i].ref = input.data[i].ref],
                !.call = [op |-> "assign", by |-> ByIndex(i),
                          ok |-> ~output.frozen,
                          before |-> Cardinality(output.stored)]]
    /\ UNCHANGED <<sessionVars, knexVars, sysVars, objs, pending, last, input>>

\* table.getDates()
GetDates ==
    /\ Made
    /\ output.call.op = "new"
    /\ output' = [output EXCEPT
            !.dates = getDates(input.heap, output.data),
            !.call = [op |-> "getDates", by |-> ByIndex(0), ok |-> TRUE,
                      before |-> Cardinality(output.stored)]]
    /\ UNCHANGED <<sessionVars, knexVars, sysVars, objs, pending, last, input>>

\* add(by), awaited.
StaticAdd(op, by) ==
    LET rs == RowsOf(input.heap, output.data,
                     Resolve(input.heap, output.data, by))
        done == StoreInsert(output.stored, rs)
    IN  output' = [output EXCEPT
            !.stored = done.stored,
            !.call = [op |-> op, by |-> by, ok |-> done.ok,
                      before |-> Cardinality(output.stored)]]

Add ==
    /\ Made
    /\ \E by \in Bys : StaticAdd("add", by)
    /\ UNCHANGED <<sessionVars, knexVars, sysVars, objs, pending, last, input>>

\* initialize(), awaited: the table is created in the database, then add(0).
Initialize ==
    /\ Made
    /\ output.call.op = "new"
    /\ StaticAdd("initialize", ByIndex(0))
    /\ UNCHANGED <<sessionVars, knexVars, sysVars, objs, pending, last, input>>

\* remove(by), awaited.
Remove ==
    /\ Made
    /\ \E by \in Bys :
          LET done == StoreDelete(output.stored,
                                  Resolve(input.heap, output.data, by))
          IN  output' = [output EXCEPT
                  !.stored = done.stored,
                  !.call = [op |-> "remove", by |-> by, ok |-> done.ok,
                            before |-> Cardinality(output.stored)]]
    /\ UNCHANGED <<sessionVars, knexVars, sysVars, objs, pending, last, input>>

NextStatic ==
    \/ Construct
    \/ ChangeDataset
    \/ AssignKey
    \/ GetDates
    \/ Add
    \/ Initialize
    \/ Remove

SpecStatic == InitStatic /\ [][NextStatic]_vars

\* ------------------------------------------------------- member binding
\* The (scope, table key) and (system proxy, service key) slots that hold a
\* bound instance.
BoundTables == {x \in Scopes \X Tables : connected[x[1]][x[2]] # NoObj}

BoundServices == {x \in Systems \X Services : sysConnected[x[1]][x[2]] # NoObj}

\* C7: a member is bound per (scope, member): the first read of a table on
\* a Database scope connects the blueprint to that scope's own connection
\* and keeps the instance, every later read of it on that scope returns the
\* kept instance and connects nothing, distinct scopes hold distinct
\* instances, each bound to its own scope's connection; a System proxy does
\* the same with its services, bound to the Database scope it wraps; a new
\* scope or proxy starts with nothing bound.
C7_BoundOncePerScope ==
    /\ [](\A x \in BoundTables :
            LET o == connected[x[1]][x[2]] IN
            /\ o \in ObjIds \ Blueprints
            /\ objs[o] = [objs[Models[x[2]]] EXCEPT !.conn = knex[x[1]]])
    /\ [](\A x \in BoundServices :
            LET o == sysConnected[x[1]][x[2]] IN
            /\ o \in ObjIds \ Blueprints
            /\ objs[o] = [objs[Sys[x[2]]] EXCEPT !.conn = sysDb[x[1]]])
    /\ [](/\ \A x, y \in BoundTables :
                x # y => connected[x[1]][x[2]] # connected[y[1]][y[2]]
          /\ \A x, y \in BoundServices :
                x # y => sysConnected[x[1]][x[2]] # sysConnected[y[1]][y[2]]
          /\ \A x \in BoundTables, y \in BoundServices :
                connected[x[1]][x[2]] # sysConnected[y[1]][y[2]])
    /\ [](Len(objs) = Cardinality(Blueprints)
                        + Cardinality(BoundTables) + Cardinality(BoundServices))
    /\ [][\A s \in Scopes, k \in Tables : DbGet(s, k) =>
            IF connected[s][k] # NoObj
            THEN /\ last'.ret = connected[s][k]
                 /\ UNCHANGED <<objs, connected, sysConnected>>
            ELSE /\ last'.ret \notin ObjIds
                 /\ connected' = [connected EXCEPT ![s][k] = last'.ret]
                 /\ Len(objs') = Len(objs) + 1
                 /\ \A o \in ObjIds : objs'[o] = objs[o]
                 /\ UNCHANGED sysConnected]_vars
    /\ [][\A p \in Systems, k \in Services : SysGet(p, k) =>
            IF sysConnected[p][k] # NoObj
            THEN /\ last'.ret = sysConnected[p][k]
                 /\ UNCHANGED <<objs, connected, sysConnected>>
            ELSE /\ last'.ret \notin ObjIds
                 /\ sysConnected' = [sysConnected EXCEPT ![p][k] = last'.ret]
                 /\ Len(objs') = Len(objs) + 1
                 /\ \A o \in ObjIds : objs'[o] = objs[o]
                 /\ UNCHANGED connected]_vars
    /\ [][\A c \in pending : (TransactionReturn(c) /\ c.ok) =>
            /\ \A k \in Tables : connected'[nScopes][k] = NoObj
            /\ c.sys # NoSys => \A k \in Services : sysConnected'[nSys][k] = NoObj
            /\ \A s \in Scopes : connected'[s] = connected[s]
            /\ \A q \in Systems : sysConnected'[q] = sysConnected[q]]_vars

\* A scope and its child both hold an instance of the same table, a system
\* proxy holds a service, and the read just made on the parent, after the
\* child's instance was made, returned the parent's instance again.
C7_Witness ==
    \E s, t \in Scopes, k \in Tables :
        /\ parent[t] = s
        /\ connected[s][k] # NoObj
        /\ connected[t][k] > connected[s][k]
        /\ BoundServices # {}
        /\ last.op = "get" /\ last.res = "ok" /\ last.ret = connected[s][k]

\* ------------------------------------------------- System mirrors Database
\* C8: a System proxy mirrors the Database scope it wraps. The base proxy
\* wraps the base scope; transaction() on a proxy opens a transaction on the
\* wrapped scope under that scope's rules and the proxy it resolves with
\* wraps the new scope, one level deeper; level and closed of a proxy are
\* those of the wrapped scope; commit() and rollback() on a proxy are the
\* wrapped scope's commit() and rollback().
C8_SystemMirrorsDatabase ==
    /\ [](/\ sysDb[BaseSys] = Base
          /\ \A p, q \in Systems : p # q => sysDb[p] # sysDb[q]
          /\ \A p \in Systems :
                /\ sysDb[p] \in Scopes
                /\ SysLevel(p) = Cardinality(Chain(sysDb[p])) - 1
                /\ SysClosed(p) <=> (\E a \in Chain(sysDb[p]) : closed[a]))
    /\ [][\A p \in Systems : SystemTransaction(p) =>
            IF SysClosed(p)
            THEN last'.res = "AlreadyCompleted" /\ UNCHANGED pending
            ELSE \E c \in pending' \ pending :
                    /\ c.op = "transaction" /\ c.sys = p
                    /\ c.scope = sysDb[p]
                    /\ outer'[c.trx] = knex[sysDb[p]]]_vars
    /\ [][\A c \in pending : (TransactionReturn(c) /\ c.ok /\ c.sys # NoSys) =>
            /\ nSys' = nSys + 1
            /\ sysDb'[nSys] = nScopes
            /\ parent'[nScopes] = sysDb[c.sys]
            /\ knex'[nScopes] = c.trx
            /\ \A q \in {nSys} : SysLevel(q)' = SysLevel(c.sys) + 1
            /\ \A q \in Systems : sysDb'[q] = sysDb[q]]_vars
    /\ [][\A c \in pending : (TransactionReturn(c) /\ c.sys = NoSys) =>
            UNCHANGED sysVars]_vars
    /\ [][\A p \in Systems :
            /\ SystemCommit(p) => Finish("commit", sysDb[p], NoSys)
            /\ SystemRollback(p) => Finish("rollback", sysDb[p], NoSys)]_vars

\* A proxy two levels deep reports closed though the scope it wraps was
\* never committed or rolled back itself, and a commit on it was refused.
C8_Witness ==
    \E p \in Systems :
        /\ SysLevel(p) = 2
        /\ SysClosed(p)
        /\ ~closed[sysDb[p]]
        /\ \E q \in Systems : q # p /\ parent[sysDb[p]] = sysDb[q] /\ closed[sysDb[q]]
        /\ last.op = "commit" /\ last.res = "AlreadyCompleted"

\* ------------------------------------------------------- row visibility
\* The scope whose connection a row was inserted through.
ScopeOf(r) == CHOOSE s \in Scopes : knex[s] = r.via

\* Every transaction scope has been closed and no call is in flight.
AllSettled ==
    /\ pending = {}
    /\ \A s \in Scopes \ {Base} : closed[s]

C10_ConnectReturnsBoundClone ==
    /\ [](\A b \in Blueprints : objs[b].conn = NoConn)
    /\ [][\A o \in ObjIds, c \in Handles \cup Scopes : UserConnect(o, c) =>
            /\ last'.ret \notin ObjIds
            /\ last'.ret # o
            /\ Len(objs') = Len(objs) + 1
            /\ objs'[last'.ret] = [objs[o] EXCEPT !.conn = c]
            /\ \A x \in ObjIds : objs'[x] = objs[x]]_vars
    /\ [][\A o \in ObjIds : TableSelectAll(o) =>
            IF objs[o].conn = NoConn
            THEN last'.res = "NotConnected" /\ UNCHANGED <<knexVars, objs>>
            ELSE last'.res # "NotConnected"]_vars
    /\ [][\A o \in ObjIds : ServiceDb(o) =>
            IF objs[o].conn = NoConn
            THEN last'.res = "NotConnected" /\ UNCHANGED <<knexVars, objs>>
            ELSE last'.res = "ok" /\ last'.ret = objs[o].conn]_vars

\* The table blueprint was connected twice, to two connections, and an
\* selectAll on the blueprint itself has just been refused.
C10_Witness ==
    /\ \E x, y \in ObjIds \ Blueprints :
        /\ objs[x].kind = "table" /\ objs[y].kind = "table"
        /\ objs[x].conn # NoConn /\ objs[y].conn # NoConn
        /\ objs[x].conn # objs[y].conn
    /\ last.op = "selectAll" /\ last.res = "NotConnected"

\* ------------------------------------------------------- row conversion
\* A converter call has run.
Ran == input.op = "convert" /\ output # NoCall

NonModifiableKinds == {"id", "external", "created", "updated"}

\* The columns an action is about: all for select and where, the modifiable
\* ones for insert and update.
ActionKeys(row, action) ==
    IF action \in {"select", "where"}
    THEN row.keys
    ELSE SelectSeq(row.keys, LAMBDA k : row.cols[k].kind \notin NonModifiableKinds)

\* The positions in keys of the required columns record d has no value for.
Faults(row, keys, d) ==
    {i \in 1 .. Len(keys) :
        row.cols[keys[i]].required /\ d[keys[i]] \in {Absent, Null}}

Least(S) == CHOOSE i \in S : \A j \in S : i <= j

\* What the call must throw when required columns among keys are policed:
\* nothing if no record has a fault, else the error of the first fault of
\* the first record that has one.
PolicyError(row, keys, items) ==
    LET bad == {n \in 1 .. Len(items) : Faults(row, keys, items[n]) # {}} IN
    IF bad = {}
    THEN Thrown("none", "")
    ELSE LET d == items[Least(bad)]
             k == keys[Least(Faults(row, keys, d))]
         IN  Thrown(IF d[k] = Absent THEN "ValueMissing" ELSE "ValueNull", k)

Fails(res, e) == res.err = e.err /\ res.key = e.key

\* C11 as stated: under select and insert, a record in which any required
\* column of the row definition is absent raises ValueMissing, and one in
\* which it is null raises ValueNull.
C11_Original ==
    (Ran /\ input.action \in {"select", "insert"}) =>
        Fails(output, PolicyError(input.row, input.row.keys, input.data.items))

\* C11, amended: under select and insert, a record in which a required
\* column among the action's columns (all columns for select, the
\* modifiable ones for insert) is absent raises ValueMissing, and one in
\* which it is null raises ValueNull; the error is that of the first such
\* column, in the order of the row definition, of the first such record.
C11_RequiredColumnOfTheAction ==
    (Ran /\ input.action \in {"select", "insert"}) =>
        Fails(output, PolicyError(input.row, ActionKeys(input.row, input.action),
                                  input.data.items))

\* An insert of a record that lacks a required modifiable column has thrown
\* ValueMissing, though an id column before it was absent too.
C11_Witness ==
    /\ Ran /\ input.action = "insert" /\ ~input.data.array
    /\ output.err = "ValueMissing"
    /\ \E i \in 1 .. Len(input.row.keys) :
        /\ input.row.keys[i] # output.key
        /\ input.row.cols[input.row.keys[i]].kind = "id"
        /\ input.data.items[1][input.row.keys[i]] = Absent

\* C12: under where and update a column the record has no value for,
\* required or not, is left out of the output and raises nothing: the call
\* never throws ValueMissing, and it throws at all only for a null given to
\* a required column.
C12_AbsentIsOmitted ==
    (Ran /\ input.action \in {"where", "update"}) =>
        /\ output.err # "ValueMissing"
        /\ output.err # "none" =>
              \E n \in 1 .. Len(input.data.items) :
                  input.data.items[n][output.key] = Null
        /\ (output.err = "none" /\ ~input.data.array) =>
              \A i \in 1 .. Len(output.out) :
                  input.data.items[1][output.out[i].key] # Absent
        /\ (output.err = "none" /\ input.data.array) =>
              \A n \in 1 .. Len(output.out) : \A i \in 1 .. Len(output.out[n]) :
                  input.data.items[n][output.out[n][i].key] # Absent

\* A where conversion returned a record without a required column that was
\* absent from its input.
C12_Witness ==
    /\ Ran /\ input.action = "where" /\ ~input.data.array
    /\ output.err = "none"
    /\ Len(output.out) > 0
    /\ \E k \in DOMAIN input.row.cols :
        /\ input.row.cols[k].required
        /\ input.data.items[1][k] = Absent

\* The entries of every record a call returned.
OutRecords ==
    IF input.data.array
    THEN {output.out[n] : n \in 1 .. Len(output.out)}
    ELSE {output.out}

\* C13: whatever the record holds, the output of an insert or update
\* conversion has no key of a column of kind id, external, created or
\* updated.
C13_NoNonModifiableKey ==
    (Ran /\ input.action \in {"insert", "update"} /\ output.err = "none") =>
        \A r \in OutRecords : \A i \in 1 .. Len(r) :
            input.row.cols[r[i].key].kind \notin NonModifiableKinds

\* An update conversion was given a value for a created column and returned
\* the other column only.
C13_Witness ==
    /\ Ran /\ input.action = "update" /\ ~input.data.array
    /\ output.err = "none"
    /\ Len(output.out) = 1
    /\ \E k \in DOMAIN input.row.cols :
        /\ input.row.cols[k].kind = "created"
        /\ input.data.items[1][k] \notin {Absent, Null}

\* What the policy table gives for record d: the action's columns that d
\* has a value for, in the order of the row definition, null kept and any
\* other value transformed in the direction fn.
PolicyRecord(row, action, fn, d) ==
    LET keys == SelectSeq(ActionKeys(row, action), LAMBDA k : d[k] # Absent) IN
    [i \in 1 .. Len(keys) |->
        [key |-> keys[i],
         value |-> IF d[keys[i]] = Null THEN Null
                   ELSE IF fn = "toUser"
                        THEN ColumnToUser(row.cols[keys[i]], d[keys[i]])
                        ELSE ColumnToDatabase(row.cols[keys[i]], d[keys[i]])]]

\* The faults the policy table polices: a null in a required column of the
\* action, and under select and insert an absent one too.
PolicyFaults(row, action, d) ==
    {i \in Faults(row, ActionKeys(row, action), d) :
        action \in {"select", "insert"} \/ d[ActionKeys(row, action)[i]] = Null}

\* C14: a conversion is the policy table applied per record: it throws
\* exactly when a record has a fault; otherwise a single record gives the
\* policy's record (the action's columns that have a value, in schema order,
\* null kept, other values transformed, no key that is not a column), an
\* array gives an array of the same length whose i-th element is the
\* policy's record of the i-th input; and the input is left as it was.
C14_PolicyPerRecord ==
    /\ [](Ran =>
            LET items == input.data.items
                good == \A n \in 1 .. Len(items) :
                            PolicyFaults(input.row, input.action, items[n]) = {}
            IN  /\ output.err = "none" <=> good
                /\ (good /\ ~input.data.array) =>
                      output.out = PolicyRecord(input.row, input.action, input.fn,
                                                items[1])
                /\ (good /\ input.data.array) =>
                      /\ Len(output.out) = Len(items)
                      /\ \A n \in 1 .. Len(items) :
                            output.out[n] = PolicyRecord(input.row, input.action,
                                                         input.fn, items[n])
                /\ good => \A r \in OutRecords : \A i \in 1 .. Len(r) :
                                r[i].key # Extra)
    /\ [][input' = input]_vars

\* An array of two different records was converted to an array of two
\* records, one of them keeping a null.
C14_Witness ==
    /\ Ran /\ input.data.array /\ output.err = "none"
    /\ Len(output.out) = 2
    /\ output.out[1] # output.out[2]
    /\ \E i \in 1 .. Len(output.out[2]) : output.out[2][i].value = Null
    /\ \E k \in DOMAIN input.row.cols : input.data.items[1][k] = Absent

LosslessKinds == {"boolean", "integer", "string", "uuid"}

\* The record was converted to user shape and back.
WentBack == Ran /\ "back" \in DOMAIN output

\* The value the round trip gave back for column k.
BackValue(k) ==
    output.back.out[CHOOSE i \in 1 .. Len(output.back.out) :
                        output.back.out[i].key = k].value

\* The columns of lossless kind that the round trip carried.
Carried ==
    {k \in DOMAIN input.row.cols :
        /\ input.row.cols[k].kind \in LosslessKinds
        /\ \E i \in 1 .. Len(output.out) : output.out[i].key = k}

\* C15 as stated: toDatabase(toUser(r)) equals r on every column of kind
\* boolean, integer, string or uuid, a boolean being stored as 0 or 1.
C15_Original ==
    WentBack =>
        /\ output.back.err = "none"
        /\ \A k \in Carried : BackValue(k) = input.data.items[1][k]

\* C15, amended: toDatabase(toUser(r)) equals r on every column of kind
\* integer, string or uuid; on a boolean column it is the boolean true or
\* false of the stored value's truth (so 1 comes back as true and 0 as
\* false), and equals r only where r already held a boolean; null comes
\* back as null.
C15_RoundTrip ==
    WentBack =>
        /\ output.back.err = "none"
        /\ \A k \in Carried :
            LET v == input.data.items[1][k] IN
            IF input.row.cols[k].kind = "boolean" /\ v # Null
            THEN BackValue(k) = (IF v \in {"1", "true"} THEN "true" ELSE "false")
            ELSE BackValue(k) = v

\* A stored 1 in a boolean column came back as true, next to an integer
\* that came back as it was.
C15_Witness ==
    /\ WentBack
    /\ \E k, j \in Carried :
        /\ input.row.cols[k].kind = "boolean"
        /\ input.data.items[1][k] = "1" /\ BackValue(k) = "true"
        /\ input.row.cols[j].kind = "integer"
        /\ BackValue(j) = "7"

\* ------------------------------------------------------------ insertMany
\* A call of insertMany has been made.
ManyCalled == input.op = "insertMany"

\* C16: insertMany opens an internal transaction exactly when the number
\* of rows is at least the batch size, equality included, and then sends
\* every insert through it; with fewer rows it issues exactly one insert,
\* of all the rows, on the table's own connection, and no transaction is
\* opened by the call or at any later step of it.
C16_BatchPathIffAtLeastBatch ==
    /\ [](ManyCalled =>
            /\ output.trx # NoConn <=> input.n >= input.batch
            /\ (input.n < input.batch /\ input.observer # "throws") =>
                  /\ output.log = <<Statement(input.conn, 1 .. input.n)>>
                  /\ output.pc \in {"resolved", "rejected"}
            /\ input.n >= input.batch =>
                  /\ outer[output.trx] = input.conn
                  /\ \A j \in 1 .. Len(output.log) :
                        output.log[j].conn = output.trx)
    /\ [][(~ManyCalled /\ ManyCalled') =>
            IF input'.n >= input'.batch
            THEN nKnex' = nKnex + 1
            ELSE nKnex' = nKnex]_vars
    /\ [][(ManyCalled /\ ~BatchIdle) => nKnex' = nKnex]_vars

\* A call whose number of rows equals the batch size went through an
\* internal transaction, now committed, and its rows are on the table's
\* connection.
C16_Witness ==
    /\ ManyCalled
    /\ input.n = input.batch
    /\ output.pc = "resolved"
    /\ completed[output.trx] = "committed"
    /\ ManyRows(1 .. input.n, output.trx) \subseteq rows[input.conn]

\* A batch of the call was refused by the store.
BatchRefused ==
    ManyCalled /\ output.pc = "rejected" /\ output.trx # NoConn /\ input.bad # 0

\* C17 as stated: once a batch is refused, insertMany has rejected, its
\* internal transaction is not committed, and from then on no row of the
\* call, those of the earlier batches included, is seen through the
\* table's connection.
C17_Original ==
    BatchRefused =>
        /\ completed[output.trx] # "committed"
        /\ \A r \in Visible(input.conn) : r.via # output.trx

\* The table was bound to a transaction scope, its second batch was
\* refused, the scope then committed, and the rows of the first batch are
\* committed with it.
C17_Witness ==
    /\ BatchRefused
    /\ input.conn # Root
    /\ completed[input.conn] = "committed"
    /\ \E r \in rows[Root] : r.via = output.trx

\* ------------------------------------------------------- update payloads
\* An update or updateBy has handed its payload to the store.
Updated == input.op \in {"update", "updateBy"} /\ output # NoCall

\* The columns of kind 'updated' of the table's row definition.
UpdatedColumns == {k \in DOMAIN input.table.row.cols :
                      input.table.row.cols[k].kind = "updated"}

\* C18 as stated: the payload update and updateBy send to the store holds
\* every column of kind 'updated', set to the current timestamp whatever
\* the caller's row held, and the table, a clone made by connect, stamps
\* the columns listed at construction.
C18_Original ==
    (Updated /\ output.payload.err = "none") =>
        /\ \A i \in 1 .. Len(input.table.updates) :
              input.table.updates[i] \in UpdatedColumns
        /\ \A k \in UpdatedColumns :
              \E i \in 1 .. Len(output.payload.out) :
                  /\ output.payload.out[i].key = k
                  /\ output.payload.out[i].value = fromDateTime(Now)

\* A clone updated a table with an 'updated' column: the caller's row was
\* stamped, and the payload sent to the store has no such column.
C18_Witness ==
    /\ Updated /\ output.payload.err = "none"
    /\ \E k \in UpdatedColumns :
          /\ output.row[k] = Now
          /\ \A i \in 1 .. Len(output.payload.out) : output.payload.out[i].key # k
    /\ Len(output.payload.out) > 0

\* ---------------------------------------------------------- static tables
\* new StaticTable(...) has returned or thrown.
Constructed == input.op = "static" /\ output # NoCall

\* A row the dataset must not hold.
BadRow(row) ==
    \/ row.id \notin {2 * n : n \in 1 .. 2}
    \/ ~(row.created.form /\ row.created.m \in 1 .. 12
         /\ row.created.d \in 1 .. DaysIn(row.created.m))

GivenDates == {input.given[i].created : i \in 1 .. Len(input.given)}

\* The date an argument of add or remove stands for: itself, or for an
\* index i the date with exactly i earlier dates in the dataset.
DateOf(by) ==
    IF ~by.num THEN by.date
    ELSE IF \E c \in GivenDates :
               Cardinality({e \in GivenDates : DateKey(e) < DateKey(c)}) = by.i
    THEN CHOOSE c \in GivenDates :
               Cardinality({e \in GivenDates : DateKey(e) < DateKey(c)}) = by.i
    ELSE Undefined

\* The rows of the dataset created on a date.
GivenOn(date) ==
    {input.given[i] : i \in {j \in 1 .. Len(input.given) :
                                input.given[j].created = date}}

\* C20: getDates returns the distinct created values of the dataset in
\* ascending order; an add (or initialize, which is add(0)) that succeeds
\* stores exactly the dataset rows created on the date its argument stands
\* for, an index i standing for the i-th earliest date, and a remove
\* deletes exactly the stored rows of that date; a remove that follows a
\* successful add of the same argument leaves as many rows stored as there
\* were before the add.
C20_DatesAddRemove ==
    /\ []((Made /\ output.call.op = "getDates") =>
            /\ {output.dates[i] : i \in 1 .. Len(output.dates)} = GivenDates
            /\ \A i, j \in 1 .. Len(output.dates) :
                  i < j => DateKey(output.dates[i]) < DateKey(output.dates[j]))
    /\ [][(Made /\ output'.call # output.call
                /\ output'.call.op \in {"add", "initialize"}
                /\ output'.call.ok) =>
            output'.stored = output.stored \cup GivenOn(DateOf(output'.call.by))]_vars
    /\ [][(Made /\ output'.call # output.call
                /\ output'.call.op \in {"add", "initialize"}
                /\ ~output'.call.ok) =>
            output'.stored = output.stored]_vars
    /\ [][(Made /\ output'.call.op = "remove" /\ output'.call.ok
                /\ output'.stored # output.stored) =>
            /\ output.stored \ output'.stored = GivenOn(DateOf(output'.call.by))
                                                  \cap output.stored
            /\ output'.stored \subseteq output.stored]_vars
    /\ [][(Made /\ output.call.op = "add" /\ output.call.ok
                /\ output'.call.op = "remove"
                /\ output'.call.by = output.call.by
                /\ output'.call.before = Cardinality(output.stored)) =>
            Cardinality(output'.stored) = output.call.before]_vars

\* The dataset lists a later date first; add(0) has stored the row of the
\* earliest date only.
C20_Witness ==
    /\ Made
    /\ Len(input.given) = 2
    /\ DateKey(input.given[1].created) > DateKey(input.given[2].created)
    /\ output.call = [op |-> "add", by |-> ByIndex(0), ok |-> TRUE, before |-> 0]
    /\ output.stored = {input.given[2]}

\* The scope the last step returned from transaction(), if it returned one.
ReturnedScope ==
    IF last = Outcome("transaction", "ok", NoObj) THEN {nScopes - 1} ELSE {}

\* C21: every scope returned by transaction() is Active (closed is false)
\* at the moment it is returned, in every interleaving, also when a commit()
\* or rollback() on the parent or on a scope above it completes while
\* transaction() is suspended awaiting the sub-connection.
C21_Original == \A s \in ReturnedScope : ~Closed(s)

\* transaction() has just returned a scope whose own flag is unset and which
\* reports closed: the scope it was called on closed during the await.
C21_Witness ==
    \E s \in ReturnedScope :
        /\ ~closed[s]
        /\ Closed(s)
        /\ closed[parent[s]]

\* Scope s hands a call to its connection in this step: transaction(),
\* commit() or rollback() past their guards, or an insert through its member.
ReachesConnection(s) ==
    \/ Transaction(s, NoSys) /\ TransactionIssue(s, NoSys)
    \/ \E op \in {"commit", "rollback"} : Finish(op, s, NoSys) /\ FinishIssue(op, s)
    \/ ScopeInsert(s)

\* C22: the closed flag prevents use-after-close at this layer: once a scope
\* is closed, no operation issued through it - transaction(), commit(),
\* rollback(), or a data operation on a member read from it before or after
\* it closed - reaches the scope's connection.
C22_Original ==
    [][\A s \in Scopes : Closed(s) => ~(ReachesConnection(s) /\ UNCHANGED callVars)]_vars

\* An insert through the member of a closed scope got to the store and its
\* row was written.
C22_Witness ==
    \E s \in Scopes :
        /\ Closed(s)
        /\ last.op = "insert"
        /\ last.res = "ok"
        /\ [id |-> last.ret, via |-> knex[s]] \in inserted

\* C25: for any transaction scope and any interleaving of commit() and
\* rollback() calls issued on it without awaiting one another, the
\* connection's commit/rollback is invoked at most once in total (a call is
\* handed to a connection that was never asked to finish, and the connection
\* is completed from then on), and every call but the one that invoked it
\* rejects without reaching the connection.
C25_FinishInvokedOnce ==
    /\ [][\A op \in FinishOps, s \in Scopes : KnexCalled(op, s) =>
            /\ ~IsCompleted(knex[s])
            /\ IsCompleted(knex[s])'
            /\ \A c \in pending : ~(c.op \in FinishOps /\ c.trx = knex[s])]_vars
    /\ [][\A h \in Handles : IsCompleted(h) => IsCompleted(h)']_vars
    /\ [][\A op \in FinishOps, s \in Scopes \ {Base} :
            (IsCompleted(knex[s]) /\ Finish(op, s, NoSys)) =>
                /\ last'.res = "AlreadyCompleted"
                /\ ~KnexCalled(op, s)
                /\ UNCHANGED <<knexVars, pending>>]_vars

\* A commit is in flight on a scope that no one has closed, and a rollback
\* issued meanwhile on the same scope has just been rejected.
C25_Witness ==
    /\ last = Outcome("rollback", "AlreadyCompleted", NoObj)
    /\ \A s \in Scopes : ~Closed(s)
    /\ \E c \in pending : c.op = "commit" /\ c.ok
    /\ \A h \in Handles : IsCompleted(h) =>
            \E c \in pending : c.op = "commit" /\ c.trx = h

\* The scopes whose connection refused their commit() or rollback().
FailedScopes == {s \in Scopes : completed[knex[s]] = "failed"}

\* C26 as stated: if the connection's commit() or rollback() rejects, the
\* scope's call rejects with that error and its own closed flag stays false,
\* the scope and the scopes below it are not reported closed for it, and a
\* later commit() or rollback() on the scope is still attempted against the
\* connection.
C26_Original ==
    /\ [][\A c \in pending : (c.op \in FinishOps /\ ~c.ok /\ FinishReturn(c)) =>
            /\ last'.res = "ConnectionError"
            /\ closed' = closed
            /\ \A t \in Scopes : Closed(t)' = Closed(t)]_vars
    /\ [][\A op \in FinishOps, s \in FailedScopes :
            (~Closed(s) /\ Finish(op, s, NoSys)) => KnexCalled(op, s)]_vars

\* C26: if the connection's commit() or rollback() rejects, the scope's call
\* rejects with that error and its own closed flag stays false, and the
\* scope and the scopes below it are not reported closed for it; a later
\* commit() or rollback() on the scope passes the test of closed and is
\* stopped by the connection reporting itself completed: it rejects as
\* already completed and is not handed to the connection.
C26_FailedFinishLeavesOpen ==
    /\ [][\A c \in pending : (c.op \in FinishOps /\ ~c.ok /\ FinishReturn(c)) =>
            /\ last'.res = "ConnectionError"
            /\ closed' = closed
            /\ \A t \in Scopes : Closed(t)' = Closed(t)]_vars
    /\ [][\A op \in FinishOps, s \in FailedScopes :
            (~Closed(s) /\ Finish(op, s, NoSys)) =>
                /\ last'.res = "AlreadyCompleted"
                /\ ~KnexCalled(op, s)
                /\ UNCHANGED <<sessionVars, knexVars, pending>>]_vars

\* The connection refused the commit of the only transaction scope; the
\* scope does not report closed, and its next commit has been rejected.
C26_Witness ==
    /\ nScopes = 2
    /\ FailedScopes = {1}
    /\ ~Closed(1)
    /\ pending = {}
    /\ last = Outcome("commit", "AlreadyCompleted", NoObj)

\* The call of insertMany took the batch path.
OnBatchPath == ManyCalled /\ output.trx # NoConn

\* rows[i, i + batchSize) for i = (j - 1) * batchSize, the rows numbered
\* from 1.
StatedSlice(j) ==
    {k \in 1 .. input.n : (j - 1) * input.batch < k /\ k <= j * input.batch}

ManySettled == ManyCalled /\ output.pc \in {"resolved", "rejected"}

\* C24 as stated: whenever insertMany opens its internal transaction, that
\* transaction is terminated - committed or rolled back - by the time the
\* call settles, on success and on failure alike.
C24_Original ==
    (OnBatchPath /\ ManySettled) => completed[output.trx] # "open"

\* The observer threw on its first call: insertMany has rejected, no insert
\* was issued, and the internal transaction is still open.
C24_Witness ==
    /\ OnBatchPath
    /\ input.observer = "throws"
    /\ output.pc = "rejected"
    /\ output.log = <<>>
    /\ completed[output.trx] = "open"

\* C30 as stated: insertMany terminates for every rows array and every
\* integer batch size, 0 and negative values included: on a connection
\* whose calls all complete, a call that was made settles.
C30_Original == ManyCalled ~> ManySettled

\* A batch size of 0 and one row: the loop has issued more inserts than
\* there are rows, all of them empty, and stands where it began.
C30_Witness ==
    /\ OnBatchPath
    /\ input.batch = 0
    /\ input.n = 1
    /\ output.pc = "batch"
    /\ output.i = 0
    /\ Len(output.log) = MaxLog
    /\ \A j \in 1 .. Len(output.log) : output.log[j].rows = {}

\* C28 as stated: update(id, row) and updateBy(condition, row) leave the
\* caller's row argument unchanged: after the call the object has exactly
\* the keys and values it had before.
C28_Original == Updated => output.row = input.data

\* The caller's row had no value for a column of kind 'updated'; after the
\* call it holds the timestamp under that key.
C28_Witness ==
    /\ Updated
    /\ \E k \in UpdatedColumns :
          /\ input.data[k] = Absent
          /\ output.row[k] = Now
    /\ \A k \in DOMAIN input.data \ UpdatedColumns : output.row[k] = input.data[k]

\* The keys of the table's map.
MadeKeys == {output.data[i].key : i \in 1 .. Len(output.data)}

\* C29 as stated: in every successfully constructed StaticTable the id
\* index and the keyed map agree: for every key k of the dataset,
\* getRow(getId(k)) is the same row as getRow(k), also when two dataset keys
\* carry the same id.
C29_Original ==
    Made =>
        \A k \in MadeKeys :
            getRow(output, ById(getId(input.heap, output, ByKey(k))))
                = getRow(output, ByKey(k))

\* Two keys carry the same id and different dates: the id leads to the row
\* of the second key, and no id leads to the row of the first.
C29_Witness ==
    /\ Made
    /\ output.call.op = "new"
    /\ Len(output.data) = 2
    /\ getId(input.heap, output, ByKey("row1")) = getId(input.heap, output, ByKey("row2"))
    /\ input.heap[getRow(output, ByKey("row1"))] # input.heap[getRow(output, ByKey("row2"))]
    /\ getRow(output, ById(getId(input.heap, output, ByKey("row1"))))
            = getRow(output, ByKey("row2"))
    /\ \A id \in DOMAIN output.index : output.index[id] # getRow(output, ByKey("row1"))

\* ------------------------------------------------------- insert payloads
\* insert(row): Row.insert.toDatabase(this.row, row), the row handed to the
\* store, or the error thrown before the store is reached.
InsertPayload(row, item) == RowConvert("insert", "toDatabase", row, Single(item))

\* The rows insertMany hands to the store, in the order sent: the slices of
\* the caller's array on the batch path, the array itself on the direct one.
ManyPayload(row, items, batch) ==
    IF BatchPath(Len(items), batch)
    THEN [j \in 1 .. Len(items) |->
            items[CHOOSE k \in Slice(((j - 1) \div batch) * batch, batch, Len(items)) :
                      k = j]]
    ELSE items

\* The row definitions of the tables rows are sent through.
SendRows ==
    {ArrayRow, MakeRow(<<booleanColumn(TRUE), datetimeColumn(FALSE)>>)}

\* A caller with a table and an array of user-shape rows, about to insert
\* them one by one and all at once.
InitSend ==
    /\ InitSession
    /\ \E row \in SendRows, n \in 0 .. MaxLen, batch \in 1 .. MaxLen + 1 :
          \E items \in [1 .. n -> Records(row, "toDatabase", Len(row.keys))] :
              input = [op |-> "send", row |-> row, items |-> items, batch |-> batch]
    /\ output = [single |-> <<>>, many |-> <<>>, sent |-> FALSE]

\* table.insert(items[j]) for the next row of the array.
SendInsert ==
    /\ input.op = "send"
    /\ Len(output.single) < Len(input.items)
    /\ output' = [output EXCEPT !.single =
            Append(@, InsertPayload(input.row, input.items[Len(@) + 1]))]
    /\ UNCHANGED <<sessionVars, knexVars, sysVars, objs, pending, last, input>>

\* table.insertMany(items, batch)
SendMany ==
    /\ input.op = "send"
    /\ ~output.sent
    /\ output' = [output EXCEPT
            !.many = ManyPayload(input.row, input.items, input.batch),
            !.sent = TRUE]
    /\ UNCHANGED <<sessionVars, knexVars, sysVars, objs, pending, last, input>>

NextSend == SendInsert \/ SendMany

SpecSend == InitSend /\ [][NextSend]_vars

\* The caller has inserted every row alone and all of them at once.
BothSent ==
    input.op = "send" /\ output.sent /\ Len(output.single) = Len(input.items)

\* C27 as stated: insertMany hands the store the same storage-shape rows
\* that insert would for each row taken alone: every row goes through the
\* Insert conversion before it is sent (a row insert sends is sent in the
\* same shape, a row insert refuses is not sent), on the batch path and on
\* the direct path.
C27_Original ==
    BothSent =>
        IF \A j \in 1 .. Len(input.items) : output.single[j].err = "none"
        THEN output.many =
                [j \in 1 .. Len(input.items) |->
                    AsRecord(input.row, output.single[j].out)]
        ELSE Len(output.many) < Len(input.items)

\* One row with an id and a name: insert sends the name alone, insertMany
\* the row as given, id and unknown key included.
C27_Witness ==
    /\ BothSent
    /\ input.row = ArrayRow
    /\ Len(input.items) = 1
    /\ input.items[1]["a"] = "1"
    /\ output.single[1].err = "none"
    /\ AsRecord(input.row, output.single[1].out)["a"] = Absent
    /\ AsRecord(input.row, output.single[1].out)[Extra] = Absent
    /\ output.many = input.items

====
